---- MODULE Spec2Model ----
(***************************************************************************)
(* A model of the PDF page processor of PDFMathTranslate.                  *)
(*                                                                         *)
(*   - the paragraph and formula assembler: part A of                      *)
(*     TranslateConverter.receive_layout (src/pdf2zh/converter.py)         *)
(*   - the translation orchestrator: part B of receive_layout, the worker  *)
(*     with its cache and its retry, run by a thread pool                  *)
(*   - the retypesetter: part C of receive_layout                          *)
(*   - the page loop of extract_text_to_fp (src/pdf2zh/high_level.py)      *)
(*                                                                         *)
(* Lengths are integers in tenths of a point, so that the one-point gap of *)
(* the assembler is 10 and a mask pixel is x \div 10.  Strings are         *)
(* sequences of one-character strings.                                     *)
(***************************************************************************)
EXTENDS Integers, Sequences, FiniteSets, TLC

VARIABLES
    pc,        \* where the run stands: "scan", "scanned" (part A);
               \* "translate", "translated", "failed" (part B);
               \* "retypeset", "returned" (part C);
               \* "pages", "closed", "raised" (the page loop)
    layout,    \* self.layout[ltpage.pageid]: the page's region mask, by bands
    scanned,   \* the children of ltpage consumed so far, in order
    sstk,      \* paragraph texts
    ssrc,      \* history: for every character of sstk, where it comes from
    pstk,      \* paragraph attributes
    vbkt,      \* bracket depth
    vstk,      \* formula buffer: glyphs
    vlstk,     \* formula buffer: lines
    vfix,      \* pending vertical-offset correction
    var,       \* formula groups: glyphs
    varl,      \* formula groups: lines
    varf,      \* formula groups: vertical-offset correction
    vlen,      \* formula groups: width
    vpar,      \* history: for every formula group, the number of paragraphs
               \* when the step that closed it began
    lstk,      \* global lines
    xt,        \* previous glyph
    xt_cls,    \* previous glyph's region id
    thread,    \* self.thread: max_workers of the pool
    broken,    \* the texts on which the translator raises at every call
    cache,     \* the persistent paragraph cache: key -> text or None
    cache0,    \* history: the cache when the run began
    qnext,     \* the pool's work queue: the next item no worker has taken
    wk,        \* the pool's threads: the item each runs and where it stands
    fut,       \* the futures of executor.map, one per paragraph
    attempts,  \* tenacity's attempt number of each item's call, capped
    calls,     \* history: translator calls that returned, per key
    writes,    \* history: cache writes, per key
    raced,     \* history: keys two threads worked on at the same time
    order,     \* history: the items in the order their futures completed
    news,      \* the translated texts, as collected
    resfont,   \* self.resfont: the font of the characters tiro does not have
    debug,     \* log.isEnabledFor(logging.DEBUG)
    lang_out,  \* self.translator.lang_out
    id,        \* the paragraph being typeset, counted from 1
    x,         \* the cursor
    y,
    cstk,      \* the pending run of text
    fcur,      \* the font of the pending run
    fcur_,     \* the font resolved for the last literal character
    tx,        \* where the pending run begins
    ptr,       \* the read pointer into the translated text
    ops,       \* the instructions emitted
    _x,        \* the end of the last trace line
    _y,
    skips,     \* history: the references skipped, with their paragraph
    total,     \* the number of pages of the document
    pages,     \* the pages selected; none selected means every page
    callback,  \* whether the caller gave a progress callback
    undecodable, \* the pages whose instruction stream cannot be interpreted
    pageno,    \* the page the loop stands at
    progress,  \* the calls of the callback: "current" of each
    processed, \* the pages process_page has returned for
    cur_item,  \* self.cur_item: the container the interpreter fills
    _stack,    \* self._stack: the containers of the figures that are open
    translation_tasks, \* api.py: the stored status record of the task
    task_dir,  \* api.py: pdf2zh_files/<task_id>: "none", "empty" or "pdf"
    background_tasks,  \* api.py: the jobs added by /translate, and where
               \* each stands: "queued", "running", "ended"
    response,  \* api.py: what the last request was answered
    task_status,   \* translate_task.py: the column status of the task's row
    task_process,  \* translate_task.py: the column process of the row
    clock,     \* translator.py: time.time(), in ticks
    tokens,    \* RateLimiter.tokens, in ticks of a token
    last_update,   \* RateLimiter.last_update
    lock,      \* RateLimiter.lock: the thread that holds it, or 0
    until,     \* the tick the thread asleep in acquire has asked to sleep to
    returns    \* the ticks at which acquire has returned, in order

asmVars == <<layout, scanned, sstk, ssrc, pstk, vbkt, vstk, vlstk, vfix,
             var, varl, varf, vlen, vpar, lstk, xt, xt_cls>>

orchVars == <<thread, broken, cache, cache0, qnext, wk, fut, attempts,
              calls, writes, raced, order, news>>

typeVars == <<resfont, debug, lang_out, id, x, y, cstk, fcur, fcur_, tx, ptr,
              ops, _x, _y, skips>>

docVars == <<total, pages, callback, undecodable, pageno, progress, processed>>

figVars == <<cur_item, _stack>>

apiVars == <<translation_tasks, task_dir, background_tasks, response>>

taskVars == <<task_status, task_process>>

limVars == <<clock, tokens, last_update, lock, until, returns>>

vars == <<pc, asmVars, orchVars, typeVars, docVars, figVars, apiVars,
          taskVars, limVars>>

----------------------------------------------------------------------------
(* Bounds of the model.                                                    *)

\* the number of children of a page (glyphs, lines, figures) that are scanned
MaxChildren == 3

\* the number of paragraphs handed to the orchestrator
MaxParas == 2

\* the attempt number is counted up to this value and stays there
MaxAttempts == 1

----------------------------------------------------------------------------
(* Helpers.                                                                *)

Last(s) == s[Len(s)]

SetLast(s, v) == [s EXCEPT ![Len(s)] = v]

Abs(a) == IF a < 0 THEN -a ELSE a

Min2(a, b) == IF a < b THEN a ELSE b

Max2(a, b) == IF a > b THEN a ELSE b

SetMax(S) == CHOOSE m \in S : \A e \in S : e <= m

SetMin(S) == CHOOSE m \in S : \A e \in S : m <= e

\* np.clip(v, lo, hi)
Clip(v, lo, hi) == IF v < lo THEN lo ELSE IF v > hi THEN hi ELSE v

\* int(v) of a length in tenths of a point: the pixel it falls in
IntPt(v) == IF v >= 0 THEN v \div 10 ELSE -((-v) \div 10)

\* "%d" % n, for n >= 0
RECURSIVE Decimal(_)
Decimal(n) ==
    LET d == <<"0", "1", "2", "3", "4", "5", "6", "7", "8", "9">>
    IN  IF n < 10 THEN <<d[n + 1]>> ELSE Decimal(n \div 10) \o <<d[(n % 10) + 1]>>

\* len(s.strip()): only the space is white in the model's alphabet
StripLen(s) ==
    LET ns == {i \in 1..Len(s) : s[i] # " "}
    IN  IF ns = {} THEN 0 ELSE SetMax(ns) - SetMin(ns) + 1

\* s.count(c)
Count(s, c) == Cardinality({i \in 1..Len(s) : s[i] = c})

----------------------------------------------------------------------------
(* The page: its mask and its children.                                    *)

\* ltpage.width, in tenths of a point
PageW == 300

\* layout.shape: one pixel per point; the model's pages are one pixel high
LayoutH == 1
LayoutW == PageW \div 10

\* The masks of the model are constant on three bands of columns, which
\* hold the three horizontal positions a glyph can have.
XPos == {0, 50, 200}

BandOf(cx) == IF cx < 5 THEN 1 ELSE IF cx < 20 THEN 2 ELSE 3

Masks == {<<1, 1, 1>>, <<1, 1, 2>>, <<0, 0, 1>>, <<0, 1, 0>>}

\* cx, cy = np.clip(int(x0), 0, w - 1), np.clip(int(y0), 0, h - 1); layout[cy, cx]
LayoutAt(x0, y0) ==
    LET cx == Clip(IntPt(x0), 0, LayoutW - 1)
        cy == Clip(IntPt(y0), 0, LayoutH - 1)
    IN  IF cy = 0 THEN layout[BandOf(cx)] ELSE 1

\* Font names, as the model needs them.
PlainFont == "Times-Roman"
MathFont  == "ABCDEF+CMMI10"
BoldFont  == "Times-Bold"

\* the kinds of glyph a page shows: text, font name, size, baseline, and
\* whether the rendering matrix has zero scale terms (vertical writing)
Kinds == {
    [text |-> <<"a">>, fontname |-> PlainFont, size |-> 100, y0 |-> 0,  vert |-> FALSE],
    [text |-> <<"a">>, fontname |-> PlainFont, size |-> 70,  y0 |-> 30, vert |-> FALSE],
    [text |-> <<"+">>, fontname |-> PlainFont, size |-> 100, y0 |-> 0,  vert |-> FALSE],
    [text |-> <<"a">>, fontname |-> MathFont,  size |-> 100, y0 |-> 0,  vert |-> FALSE],
    [text |-> <<"a">>, fontname |-> PlainFont, size |-> 100, y0 |-> 0,  vert |-> TRUE],
    [text |-> <<"(">>, fontname |-> PlainFont, size |-> 100, y0 |-> 0,  vert |-> FALSE],
    [text |-> <<")">>, fontname |-> PlainFont, size |-> 100, y0 |-> 0,  vert |-> FALSE]
}

\* an LTChar: the n-th child of the page, of kind k, with its left edge at
Glyph(n, k, at) ==
    [id |-> n, type |-> "char", text |-> k.text, fontname |-> k.fontname,
     size |-> k.size, vert |-> k.vert,
     x0 |-> at, x1 |-> at + 50, y0 |-> k.y0]

\* an LTLine: the n-th child of the page
Line(n, at, lw) ==
    [id |-> n, type |-> "line", x0 |-> at, y0 |-> 0, x1 |-> at + 50, y1 |-> 0,
     linewidth |-> lw]

LineWidths == {1, 60}

\* no previous glyph
NoGlyph == [id |-> 0, type |-> "none"]

----------------------------------------------------------------------------
(* A. The assembler: the locals of receive_layout as one record.           *)

AsmState ==
    [sstk |-> sstk, ssrc |-> ssrc, pstk |-> pstk, vbkt |-> vbkt,
     vstk |-> vstk, vlstk |-> vlstk, vfix |-> vfix,
     var |-> var, varl |-> varl, varf |-> varf,
     lstk |-> lstk, xt |-> xt, xt_cls |-> xt_cls]

\* font.split("+")[-1]: the model's one subset-tagged name
FontTail(font) == IF font = "ABCDEF+CMMI10" THEN "CMMI10" ELSE font

\* re.match of the built-in list of math and symbol font families
MathFontName(font) == font \in {"CMMI10", "CMSY10", "MSAM10", "rsfs10"}

\* re.match(r"(.*Medi|.*Bold)", fontname, re.IGNORECASE)
BoldFontName(font) == font \in {"Times-Bold", "Helvetica-Medium"}

\* re.match(r"\(cid:", char)
IsCidText(char) ==
    Len(char) >= 5 /\ SubSeq(char, 1, 5) = <<"(", "c", "i", "d", ":">>

\* unicodedata.category(c) in ["Mn", "Sm"] or ord(c) in range(0x370, 0x400),
\* over the characters of the model
MathChar(c) == c \in {"+", "<", "=", ">", "|", "~"}

\* c.isalpha() and ord(c) < 128, over the characters of the model
LatinAlpha(c) == c \in {"a", "b", "c", "d", "i", "v", "T", "V"}

\* vflag(font, char) with no vfont and no vchar override
vflag(font, char) ==
    IF IsCidText(char) THEN TRUE
    ELSE IF MathFontName(FontTail(font)) THEN TRUE
    ELSE char # <<>> /\ char # <<" ">> /\ MathChar(char[1])

\* mutant: the mask sentinel is not a rule of its own
PrimaryRule_NoMask(S, child, cls) ==
    \/ (/\ cls = S.xt_cls
        /\ StripLen(Last(S.sstk)) > 1
        /\ child.size * 100 < Last(S.pstk).size * 79)
    \/ child.vert

\* mutant: a glyph of exactly 0.79 times the size is a subscript too
PrimaryRule_AtBoundary(S, child, cls) ==
    \/ cls = 0
    \/ (/\ cls = S.xt_cls
        /\ StripLen(Last(S.sstk)) > 1
        /\ child.size * 100 <= Last(S.pstk).size * 79)
    \/ child.vert

\* the three rules that classify a glyph as formula before the font and
\* character patterns are tried
PrimaryRule(S, child, cls) ==
    \/ cls = 0
    \/ (/\ cls = S.xt_cls
        /\ StripLen(Last(S.sstk)) > 1
        /\ child.size * 100 < Last(S.pstk).size * 79)
    \/ child.vert

\* is_latin_quote
IsLatinQuote(S, child) ==
    IF S.sstk # <<>>
    THEN /\ Count(Last(S.sstk), "\"") % 2 = 1
         /\ \E i \in 1..Len(child.text) : LatinAlpha(child.text[i])
    ELSE FALSE

\* cur_v after the classification rules
Classify(S, child, cls) ==
    IF PrimaryRule(S, child, cls) THEN TRUE
    ELSE ~(IsLatinQuote(S, child) \/ ~vflag(child.fontname, child.text))

\* the bracket rule: (cur_v, vbkt) after it
BracketRule(S, child, cur_v) ==
    IF cur_v THEN [cur_v |-> TRUE, vbkt |-> S.vbkt]
    ELSE IF S.vstk # <<>> /\ child.text = <<"(">>
         THEN [cur_v |-> TRUE, vbkt |-> S.vbkt + 1]
    ELSE IF S.vbkt # 0 /\ child.text = <<")">>
         THEN [cur_v |-> TRUE, vbkt |-> S.vbkt - 1]
    ELSE [cur_v |-> FALSE, vbkt |-> S.vbkt]

\* f"$v{n}$"
Placeholder(n) == <<"$", "v">> \o Decimal(n) \o <<"$">>

\* the origin recorded in ssrc for a character a glyph brought, for an
\* inserted space, and for the characters of the placeholder of group n
FromGlyph(child) == child.id
FromSpace == 0
FromGroup(n) == -(n + 1)

\* sstk[-1] += s, with the origin o of its characters
AddText(S, s, o) ==
    [S EXCEPT !.sstk = SetLast(@, Last(@) \o s),
              !.ssrc = SetLast(@, Last(@) \o [i \in 1..Len(s) |-> o])]

\* mutant: a jump of more than a quarter of the page does not end the
\* formula
FormulaEnds_NoJump(S, child, cls, cur_v) ==
    \/ ~cur_v
    \/ cls # S.xt_cls

\* the decision that the formula in progress ends at this glyph
FormulaEnds(S, child, cls, cur_v) ==
    \/ ~cur_v
    \/ cls # S.xt_cls
    \/ (Abs(child.x0 - S.xt.x0) * 4 > PageW /\ cls # 0)

\* the correction by the text right of the formula
RightFix(S, child, cls, cur_v) ==
    IF /\ ~cur_v
       /\ cls = S.xt_cls
       /\ child.x0 > SetMax({S.vstk[i].x0 : i \in 1..Len(S.vstk)})
    THEN S.vstk[1].y0 - child.y0
    ELSE S.vfix

\* mutant: the placeholder is numbered with the count of the groups after
\* the group is appended
PopFormula_CountAfter(S, fix) ==
    [AddText(S, Placeholder(Len(S.var) + 1), FromGroup(Len(S.var)))
        EXCEPT !.var = Append(@, S.vstk),
               !.varl = Append(@, S.vlstk),
               !.varf = Append(@, fix)]

\* the buffer becomes a formula group, announced in the current paragraph
PopFormula(S, fix) ==
    [AddText(S, Placeholder(Len(S.var)), FromGroup(Len(S.var)))
        EXCEPT !.var = Append(@, S.vstk),
               !.varl = Append(@, S.vlstk),
               !.varf = Append(@, fix)]

\* mutant: the correction of the group that is closed stays pending
FlushFormula_KeepsFix(S, child, cls, cur_v) ==
    IF FormulaEnds(S, child, cls, cur_v) /\ S.vstk # <<>>
    THEN [PopFormula(S, RightFix(S, child, cls, cur_v))
            EXCEPT !.vstk = <<>>, !.vlstk = <<>>]
    ELSE S

\* lines 261-279
FlushFormula(S, child, cls, cur_v) ==
    IF FormulaEnds(S, child, cls, cur_v) /\ S.vstk # <<>>
    THEN [PopFormula(S, RightFix(S, child, cls, cur_v))
            EXCEPT !.vstk = <<>>, !.vlstk = <<>>, !.vfix = 0]
    ELSE S

\* Paragraph(child.y0, child.x0, child.x0, child.x0, child.size, child.font, False)
NewParagraph(child) ==
    [y |-> child.y0, x |-> child.x0, x0 |-> child.x0, x1 |-> child.x0,
     size |-> child.size, font |-> child.fontname, brk |-> FALSE]

\* mutant: a glyph of the reserved region stays in the paragraph in progress
SpaceOrParagraph_ReservedStays(S, child, cls) ==
    IF S.vstk # <<>> THEN S
    ELSE IF cls = S.xt_cls \/ (cls = 0 /\ S.pstk # <<>>)
    THEN IF child.x0 > S.xt.x1 + 10
         THEN AddText(S, <<" ">>, FromSpace)
         ELSE IF child.x1 < S.xt.x0
         THEN [AddText(S, <<" ">>, FromSpace)
                EXCEPT !.pstk = SetLast(@, [Last(@) EXCEPT !.brk = TRUE])]
         ELSE S
    ELSE [S EXCEPT !.sstk = Append(@, <<>>),
                   !.ssrc = Append(@, <<>>),
                   !.pstk = Append(@, NewParagraph(child))]

\* mutant: a gap between two glyphs brings no space
SpaceOrParagraph_NoGapSpace(S, child, cls) ==
    IF S.vstk # <<>> THEN S
    ELSE IF cls = S.xt_cls
    THEN IF child.x0 <= S.xt.x1 + 10 /\ child.x1 < S.xt.x0
         THEN [AddText(S, <<" ">>, FromSpace)
                EXCEPT !.pstk = SetLast(@, [Last(@) EXCEPT !.brk = TRUE])]
         ELSE S
    ELSE [S EXCEPT !.sstk = Append(@, <<>>),
                   !.ssrc = Append(@, <<>>),
                   !.pstk = Append(@, NewParagraph(child))]

\* mutant: a glyph back at the left brings its space but no line break
SpaceOrParagraph_NoBreak(S, child, cls) ==
    IF S.vstk # <<>> THEN S
    ELSE IF cls = S.xt_cls
    THEN IF child.x0 > S.xt.x1 + 10 \/ child.x1 < S.xt.x0
         THEN AddText(S, <<" ">>, FromSpace)
         ELSE S
    ELSE [S EXCEPT !.sstk = Append(@, <<>>),
                   !.ssrc = Append(@, <<>>),
                   !.pstk = Append(@, NewParagraph(child))]

\* lines 281-290
SpaceOrParagraph(S, child, cls) ==
    IF S.vstk # <<>> THEN S
    ELSE IF cls = S.xt_cls
    THEN IF child.x0 > S.xt.x1 + 10
         THEN AddText(S, <<" ">>, FromSpace)
         ELSE IF child.x1 < S.xt.x0
         THEN [AddText(S, <<" ">>, FromSpace)
                EXCEPT !.pstk = SetLast(@, [Last(@) EXCEPT !.brk = TRUE])]
         ELSE S
    ELSE [S EXCEPT !.sstk = Append(@, <<>>),
                   !.ssrc = Append(@, <<>>),
                   !.pstk = Append(@, NewParagraph(child))]

\* the four conditions under which a text glyph corrects its paragraph
Corrects(S, child) ==
    LET p == Last(S.pstk)
    IN  \/ child.size * 79 > p.size * 100
        \/ StripLen(Last(S.sstk)) = 1
        \/ vflag(p.font, <<>>)
        \/ BoldFontName(p.font)

\* mutant: the origin of the paragraph stays where it was
CorrectParagraph_KeepsY(p, child) ==
    [p EXCEPT !.size = child.size,
              !.font = child.fontname]

\* lines 292-304
CorrectParagraph(p, child) ==
    [p EXCEPT !.y = @ - (child.size - p.size),
              !.size = child.size,
              !.font = child.fontname]

\* lines 291-305
PushText(S, child) ==
    LET S1 == IF Corrects(S, child)
              THEN [S EXCEPT !.pstk = SetLast(@, CorrectParagraph(Last(@), child))]
              ELSE S
    IN  AddText(S1, child.text, FromGlyph(child))

\* the correction by the text left of the formula
LeftFix(S, child, cls) ==
    IF S.vstk = <<>> /\ cls = S.xt_cls /\ child.x0 > S.xt.x0
    THEN child.y0 - S.xt.y0
    ELSE S.vfix

\* lines 306-313
PushFormula(S, child, cls) ==
    [S EXCEPT !.vfix = LeftFix(S, child, cls),
              !.vstk = Append(@, child)]

\* mutant: the right boundary follows the last glyph
UpdateBounds_NoMax(p, child) ==
    [p EXCEPT !.x0 = Min2(p.x0, child.x0),
              !.x1 = child.x1]

\* lines 315-316
UpdateBounds(p, child) ==
    [p EXCEPT !.x0 = Min2(p.x0, child.x0),
              !.x1 = Max2(p.x1, child.x1)]

\* mutant: on a region change the new paragraph is opened before the
\* formula in progress is closed
ScanGlyph_ParagraphFirst(S, child) ==
    LET cls == LayoutAt(child.x0, child.y0)
        b   == BracketRule(S, child, Classify(S, child, cls))
        S1  == [S EXCEPT !.vbkt = b.vbkt]
        S2  == IF cls # S.xt_cls
               THEN [S1 EXCEPT !.sstk = Append(@, <<>>),
                               !.ssrc = Append(@, <<>>),
                               !.pstk = Append(@, NewParagraph(child))]
               ELSE S1
        S3  == FlushFormula(S2, child, cls, b.cur_v)
        S3b == IF cls = S.xt_cls THEN SpaceOrParagraph(S3, child, cls) ELSE S3
        S4  == IF b.cur_v THEN PushFormula(S3b, child, cls) ELSE PushText(S3b, child)
    IN  [S4 EXCEPT !.pstk = SetLast(@, UpdateBounds(Last(@), child)),
                   !.xt = child,
                   !.xt_cls = cls]

\* one LTChar through the loop body, lines 220-319
ScanGlyph(S, child) ==
    LET cls == LayoutAt(child.x0, child.y0)
        b   == BracketRule(S, child, Classify(S, child, cls))
        S1  == [S EXCEPT !.vbkt = b.vbkt]
        S2  == FlushFormula(S1, child, cls, b.cur_v)
        S3  == SpaceOrParagraph(S2, child, cls)
        S4  == IF b.cur_v THEN PushFormula(S3, child, cls) ELSE PushText(S3, child)
    IN  [S4 EXCEPT !.pstk = SetLast(@, UpdateBounds(Last(@), child)),
                   !.xt = child,
                   !.xt_cls = cls]

\* mutant: a line seen while a formula is open is the formula's, whatever
\* its region
ScanLineItem_AnyRegion(S, child) ==
    IF S.vstk # <<>>
    THEN [S EXCEPT !.vlstk = Append(@, child)]
    ELSE [S EXCEPT !.lstk = Append(@, child)]

\* one LTLine through the loop body, lines 322-332
ScanLineItem(S, child) ==
    LET cls == LayoutAt(child.x0, child.y0)
    IN  IF S.vstk # <<>> /\ cls = S.xt_cls
        THEN [S EXCEPT !.vlstk = Append(@, child)]
        ELSE [S EXCEPT !.lstk = Append(@, child)]

\* mutant: the buffer left when the scan ends is forgotten
FlushTail_Dropped(S) == S

\* lines 335-340: the buffer left when the scan ends
FlushTail(S) == IF S.vstk # <<>> THEN PopFormula(S, S.vfix) ELSE S

\* lines 342-345: max([vch.x1 for vch in v]) - v[0].x0
FormulaWidth(v) == SetMax({v[i].x1 : i \in 1..Len(v)}) - v[1].x0

----------------------------------------------------------------------------
(* B. The orchestrator: worker, cache, retry and thread pool.              *)

\* Python's None, where a text is expected: no text, which is not the empty text
None == <<"None">>

\* str(self.translator): service, lang_out, lang_in
TranslatorId == "google zh-CN en"

\* the pool sizes of the model (self.thread), and the threads there can be
ThreadCounts == {1, 2}
AllThreads == 1..SetMax(ThreadCounts)

\* the paragraph texts of the model
Texts == {<<"a">>, <<"b">>}

\* what the backend answers stands in front of the text it answers for
Answers == {"x", "y"}

\* translator.translate(s), when it returns: one of the backend's answers
Translations(s) == {<<v>> \o s : v \in Answers}

\* cache.deterministic_hash((s, str(self.translator))): one key per pair
ParagraphKey(s) == <<s, TranslatorId>>

Keys == {ParagraphKey(s) : s \in Texts}

\* cache.load_paragraph(hash_key, key)
LoadParagraph(c, key) == c[key]

\* cache.write_paragraph(hash_key, key, new)
WriteParagraph(c, key, new) == [c EXCEPT ![key] = new]

\* mutant: @retry(stop=stop_after_attempt(1), wait=wait_fixed(1))
RetryStops_AfterFirst(attempt) == attempt >= 1

\* @retry(wait=wait_fixed(1)): no stop condition is given, so tenacity
\* never stops retrying
RetryStops(attempt) == FALSE

Workers == 1..thread

Idle == [pc |-> "idle", item |-> 0, new |-> None]

Pending == [state |-> "pending", val |-> None]

\* the part B variables, but for news, of a run that is not in part B
OrchQuiet ==
    /\ thread = 1 /\ broken = {} /\ qnext = 1
    /\ cache = [k \in Keys |-> None] /\ cache0 = cache
    /\ wk = [w \in 1..thread |-> Idle]
    /\ fut = <<>> /\ attempts = <<>>
    /\ calls = [k \in Keys |-> 0] /\ writes = [k \in Keys |-> 0]
    /\ raced = {} /\ order = <<>>

\* the part B variables of a run that has not reached part B
OrchIdle == OrchQuiet /\ news = <<>>

\* Python's None, where a font id is expected
NoFont == "None"

\* the part C variables of a run that has not reached part C
TypeIdle ==
    /\ resfont = "noto" /\ debug = FALSE /\ lang_out = "zh-CN"
    /\ id = 1 /\ x = 0 /\ y = 0 /\ cstk = <<>> /\ fcur = NoFont /\ fcur_ = NoFont
    /\ tx = 0 /\ ptr = 0 /\ ops = <<>> /\ _x = 0 /\ _y = 0 /\ skips = <<>>

\* the variables of the page loop, in a run of one page's processing
DocIdle ==
    /\ total = 1 /\ pages = {} /\ callback = FALSE /\ undecodable = {}
    /\ pageno = 0 /\ progress = <<>> /\ processed = <<>>

\* no container yet: the interpreter has begun no page
NoItem == [kind |-> "none", name |-> "", pageid |-> 0, objs |-> <<>>]

FigIdle == cur_item = NoItem /\ _stack = <<>>

\* get_task_status gives None: no record of the task
NoRecord == [status |-> "none", progress |-> 0, error |-> "None", output_file |-> "None"]

\* no request has been answered
NoResponse == [request |-> "none", code |-> 0, status |-> "none"]

\* the variables of the API, in a run that is not of the API
ApiIdle ==
    /\ translation_tasks = NoRecord /\ task_dir = "none"
    /\ background_tasks = <<>> /\ response = NoResponse

\* the variables of the task worker, in a run that is not of the worker
TaskIdle == task_status = "none" /\ task_process = 0

\* the variables of the rate limiter, in a run that does not use it
LimIdle ==
    /\ clock = 0 /\ tokens = 0 /\ last_update = 0 /\ lock = 0
    /\ until = 0 /\ returns = <<>>

\* the part A variables part B does not read
AsmIdle ==
    /\ layout = <<1, 1, 1>> /\ scanned = <<>>
    /\ ssrc = <<>> /\ pstk = <<>> /\ vbkt = 0
    /\ vstk = <<>> /\ vlstk = <<>> /\ vfix = 0
    /\ var = <<>> /\ varl = <<>> /\ varf = <<>> /\ vlen = <<>> /\ vpar = <<>>
    /\ lstk = <<>> /\ xt = NoGlyph /\ xt_cls = -1

\* the paragraph lists handed to the orchestrator
ParaLists == UNION {[1..n -> Texts] : n \in 0..MaxParas}

\* the caches a run can find: empty, or holding answers of earlier runs
Caches ==
    {[k \in Keys |-> None],
     [k \in Keys |-> IF k = ParagraphKey(<<"a">>) THEN <<"x", "a">> ELSE None]}

InitOrch ==
    /\ pc = "translate"
    /\ AsmIdle /\ TypeIdle /\ DocIdle /\ FigIdle /\ ApiIdle /\ TaskIdle /\ LimIdle
    /\ sstk \in ParaLists
    /\ thread \in ThreadCounts
    /\ broken \in {{}, {<<"b">>}}
    /\ cache \in Caches /\ cache0 = cache
    /\ qnext = 1
    /\ wk = [w \in 1..thread |-> Idle]
    /\ fut = [i \in 1..Len(sstk) |-> Pending]
    /\ attempts = [i \in 1..Len(sstk) |-> 0]
    /\ calls = [k \in Keys |-> 0] /\ writes = [k \in Keys |-> 0]
    /\ raced = {} /\ order = <<>> /\ news = <<>>

KeyOf(w) == ParagraphKey(sstk[wk[w].item])

\* the future of worker w's item completes with val, and w is free again
Return(w, val) ==
    /\ fut' = [fut EXCEPT ![wk[w].item] = [state |-> "done", val |-> val]]
    /\ order' = Append(order, wk[w].item)
    /\ wk' = [wk EXCEPT ![w] = Idle]

\* mutant: a thread takes the item before the next one of the queue, which
\* was taken already
Take_Again(w) ==
    /\ pc = "translate"
    /\ wk[w].pc = "idle"
    /\ qnext <= Len(sstk)
    /\ wk' = [wk EXCEPT ![w] = [pc |-> "load", item |-> Max2(qnext - 1, 1), new |-> None]]
    /\ qnext' = qnext + 1
    /\ raced' = raced
    /\ UNCHANGED <<taskVars, limVars, apiVars, figVars, pc, asmVars, typeVars, docVars, thread, broken, cache, cache0, fut, attempts,
                   calls, writes, order, news>>

\* a thread of the pool takes the next item of the queue
Take(w) ==
    /\ pc = "translate"
    /\ wk[w].pc = "idle"
    /\ qnext <= Len(sstk)
    /\ wk' = [wk EXCEPT ![w] = [pc |-> "load", item |-> qnext, new |-> None]]
    /\ qnext' = qnext + 1
    /\ raced' = IF \E u \in Workers : u # w /\ wk[u].pc # "idle" /\ KeyOf(u) = ParagraphKey(sstk[qnext])
                THEN raced \cup {ParagraphKey(sstk[qnext])} ELSE raced
    /\ UNCHANGED <<taskVars, limVars, apiVars, figVars, pc, asmVars, typeVars, docVars, thread, broken, cache, cache0, fut, attempts,
                   calls, writes, order, news>>

\* mutant: the cached text is not used
CacheMiss_Always(new) == TRUE

\* line 360: if new is None
CacheMiss(new) == new = None

\* lines 356-360 and 363: the lookup, and the return on a hit
Load(w) ==
    /\ wk[w].pc = "load"
    /\ LET new == LoadParagraph(cache, KeyOf(w))
       IN  IF CacheMiss(new)
           THEN /\ wk' = [wk EXCEPT ![w].pc = "call"]
                /\ UNCHANGED <<taskVars, limVars, apiVars, figVars, fut, order>>
           ELSE Return(w, new)
    /\ UNCHANGED <<taskVars, limVars, apiVars, figVars, pc, asmVars, typeVars, docVars, thread, broken, cache, cache0, qnext, attempts,
                   calls, writes, raced, news>>

\* line 361: the translator returns
TranslateOk(w) ==
    /\ wk[w].pc = "call"
    /\ sstk[wk[w].item] \notin broken
    /\ \E new \in Translations(sstk[wk[w].item]) :
         wk' = [wk EXCEPT ![w].pc = "write", ![w].new = new]
    /\ calls' = [calls EXCEPT ![KeyOf(w)] = @ + 1]
    /\ UNCHANGED <<taskVars, limVars, apiVars, figVars, pc, asmVars, typeVars, docVars, thread, broken, cache, cache0, qnext, fut,
                   attempts, writes, raced, order, news>>

\* lines 361, 364-369: the translator raises; tenacity retries the worker
\* after its wait unless its stop condition holds
TranslateFail(w) ==
    /\ wk[w].pc = "call"
    /\ attempts' = [attempts EXCEPT ![wk[w].item] = Min2(@ + 1, MaxAttempts)]
    /\ IF RetryStops(attempts[wk[w].item] + 1)
       THEN /\ fut' = [fut EXCEPT ![wk[w].item] = [state |-> "raised", val |-> None]]
            /\ order' = Append(order, wk[w].item)
            /\ wk' = [wk EXCEPT ![w] = Idle]
       ELSE /\ wk' = [wk EXCEPT ![w].pc = "wait"]
            /\ UNCHANGED <<taskVars, limVars, apiVars, figVars, fut, order>>
    /\ UNCHANGED <<taskVars, limVars, apiVars, figVars, pc, asmVars, typeVars, docVars, thread, broken, cache, cache0, qnext,
                   calls, writes, raced, news>>

\* wait_fixed(1) is over: the worker body runs again from its start
Retry(w) ==
    /\ wk[w].pc = "wait"
    /\ wk' = [wk EXCEPT ![w].pc = "load"]
    /\ UNCHANGED <<taskVars, limVars, apiVars, figVars, pc, asmVars, typeVars, docVars, thread, broken, cache, cache0, qnext, fut,
                   attempts, calls, writes, raced, order, news>>

\* lines 362-363: the cache write, and the return
Write(w) ==
    /\ wk[w].pc = "write"
    /\ cache' = WriteParagraph(cache, KeyOf(w), wk[w].new)
    /\ writes' = [writes EXCEPT ![KeyOf(w)] = @ + 1]
    /\ Return(w, wk[w].new)
    /\ UNCHANGED <<taskVars, limVars, apiVars, figVars, pc, asmVars, typeVars, docVars, thread, broken, cache0, qnext, attempts,
                   calls, raced, news>>

\* mutant: the results are taken as the futures complete
NextFuture_AsCompleted(k) == IF k <= Len(order) THEN order[k] ELSE k

\* executor.map yields the futures' results in the order of submission:
\* the k-th result is the k-th future's
NextFuture(k) == k

\* line 373: list() takes the next result; a raised future raises here
Collect ==
    /\ pc = "translate"
    /\ Len(news) < Len(sstk)
    /\ LET f == fut[NextFuture(Len(news) + 1)]
       IN  /\ f.state # "pending"
           /\ IF f.state = "done"
              THEN news' = Append(news, f.val) /\ pc' = pc
              ELSE news' = news /\ pc' = "failed"
    /\ UNCHANGED <<taskVars, limVars, apiVars, figVars, asmVars, typeVars, docVars,
                   thread, broken, cache, cache0, qnext, wk, fut,
                   attempts, calls, writes, raced, order>>

\* line 373: every result is taken and the pool is shut down
Finish ==
    /\ pc = "translate"
    /\ Len(news) = Len(sstk)
    /\ \A w \in Workers : wk[w].pc = "idle"
    /\ pc' = "translated"
    /\ UNCHANGED <<taskVars, limVars, apiVars, figVars, asmVars, typeVars, docVars, orchVars>>

TakeItem      == \E w \in Workers : Take(w)
LoadCache     == \E w \in Workers : Load(w)
CallReturns   == \E w \in Workers : TranslateOk(w)
CallRaises    == \E w \in Workers : TranslateFail(w)
RetryWorker   == \E w \in Workers : Retry(w)
WriteCache    == \E w \in Workers : Write(w)

NextOrch ==
    \/ TakeItem
    \/ LoadCache
    \/ CallReturns
    \/ CallRaises
    \/ RetryWorker
    \/ WriteCache
    \/ Collect
    \/ Finish

SpecOrch == InitOrch /\ [][NextOrch]_vars

\* the steps of thread w of the pool, except the translator's answer
ThreadStep(w) ==
    /\ w \in Workers
    /\ Take(w) \/ Load(w) \/ Retry(w) \/ Write(w)

\* The threads of the pool and the main thread are scheduled fairly.  That
\* a call which is tried again and again returns at some time is the
\* premise "the translator eventually succeeds": it holds for the texts
\* that are not in broken, the only ones TranslateOk is enabled for.
SpecOrchFair ==
    /\ InitOrch /\ [][NextOrch]_vars
    /\ \A w \in AllThreads : WF_vars(ThreadStep(w))
    /\ \A w \in AllThreads : SF_vars(w \in Workers /\ TranslateOk(w))
    /\ WF_vars(Collect)
    /\ WF_vars(Finish)

\* What translate returns when the backend fails without raising: the
\* marker of GoogleTranslator (translator.py 58-59, on status 400) and the
\* source text of OpenAITranslator (translator.py 237-248, on an error of
\* the API)
Failures(s) == {<<"IRREPARABLE TRANSLATION ERROR">>, s}

\* line 361: the backend fails and translate returns all the same
TranslateQuietFail(w) ==
    /\ wk[w].pc = "call"
    /\ sstk[wk[w].item] \notin broken
    /\ \E new \in Failures(sstk[wk[w].item]) :
         wk' = [wk EXCEPT ![w].pc = "write", ![w].new = new]
    /\ calls' = [calls EXCEPT ![KeyOf(w)] = @ + 1]
    /\ UNCHANGED <<taskVars, limVars, apiVars, figVars, pc, asmVars, typeVars, docVars, thread, broken, cache, cache0, qnext, fut,
                   attempts, writes, raced, order, news>>

CallFailsQuietly == \E w \in Workers : TranslateQuietFail(w)

NextBackend == NextOrch \/ CallFailsQuietly

\* part B with backends that can fail
SpecBackend == InitOrch /\ [][NextBackend]_vars

----------------------------------------------------------------------------
(* The actions of the scan.                                                *)

\* the groups closed by a step are recorded with the paragraph count before it
Closed(S) == vpar \o [i \in 1..(Len(S.var) - Len(var)) |-> Len(sstk)]

Store(S) ==
    /\ vpar' = Closed(S)
    /\ sstk' = S.sstk /\ ssrc' = S.ssrc /\ pstk' = S.pstk /\ vbkt' = S.vbkt
    /\ vstk' = S.vstk /\ vlstk' = S.vlstk /\ vfix' = S.vfix
    /\ var' = S.var /\ varl' = S.varl /\ varf' = S.varf
    /\ lstk' = S.lstk /\ xt' = S.xt /\ xt_cls' = S.xt_cls

InitAsm ==
    /\ pc = "scan"
    /\ OrchIdle /\ TypeIdle /\ DocIdle /\ FigIdle /\ ApiIdle /\ TaskIdle /\ LimIdle
    /\ layout \in Masks
    /\ scanned = <<>>
    /\ sstk = <<>> /\ ssrc = <<>> /\ pstk = <<>> /\ vbkt = 0
    /\ vstk = <<>> /\ vlstk = <<>> /\ vfix = 0
    /\ var = <<>> /\ varl = <<>> /\ varf = <<>> /\ vlen = <<>> /\ vpar = <<>>
    /\ lstk = <<>> /\ xt = NoGlyph /\ xt_cls = -1

\* for child in ltpage: an LTChar
ScanChar ==
    /\ pc = "scan"
    /\ Len(scanned) < MaxChildren
    /\ \E k \in Kinds, at \in XPos :
         LET child == Glyph(Len(scanned) + 1, k, at)
         IN  /\ Store(ScanGlyph(AsmState, child))
             /\ scanned' = Append(scanned, child)
    /\ UNCHANGED <<taskVars, limVars, apiVars, figVars, pc, layout, vlen, orchVars, typeVars, docVars>>

\* for child in ltpage: an LTLine
ScanLine ==
    /\ pc = "scan"
    /\ Len(scanned) < MaxChildren
    /\ \E at \in {0, 200}, lw \in LineWidths :
         LET child == Line(Len(scanned) + 1, at, lw)
         IN  /\ Store(ScanLineItem(AsmState, child))
             /\ scanned' = Append(scanned, child)
    /\ UNCHANGED <<taskVars, limVars, apiVars, figVars, pc, layout, vlen, orchVars, typeVars, docVars>>

\* the end of the loop: the tail flush and the widths
EndScan ==
    /\ pc = "scan"
    /\ Store(FlushTail(AsmState))
    /\ vlen' = [i \in 1..Len(FlushTail(AsmState).var) |-> FormulaWidth(FlushTail(AsmState).var[i])]
    /\ pc' = "scanned"
    /\ UNCHANGED <<taskVars, limVars, apiVars, figVars, layout, scanned, orchVars, typeVars, docVars>>

Next == ScanChar \/ ScanLine \/ EndScan

Spec == InitAsm /\ [][Next]_vars

----------------------------------------------------------------------------
(* The claims about the assembler.                                         *)

\* the glyphs scanned so far
Glyphs == SelectSeq(scanned, LAMBDA c : c.type = "char")

GlyphSet == {Glyphs[i] : i \in 1..Len(Glyphs)}

RegionOf(g) == LayoutAt(g.x0, g.y0)

\* the places of a glyph in the paragraph texts and in the formula groups
ParaPlaces(g) ==
    UNION {{<<i, j>> : j \in {n \in 1..Len(ssrc[i]) : ssrc[i][n] = FromGlyph(g)}} :
             i \in 1..Len(ssrc)}

GroupPlaces(g) ==
    UNION {{<<k, j>> : j \in {n \in 1..Len(var[k]) : var[k][n] = g}} :
             k \in 1..Len(var)}

BufferPlaces(g) == {j \in 1..Len(vstk) : vstk[j] = g}

\* the places pp are those of the glyph's text, which stands once,
\* unbroken, in one paragraph
InOneParagraph(g, pp) ==
    \E a \in pp :
        /\ pp = {<<a[1], a[2] + d>> : d \in 0..(Len(g.text) - 1)}
        /\ SubSeq(sstk[a[1]], a[2], a[2] + Len(g.text) - 1) = g.text

\* C1: when the scan of a page has ended, every glyph scanned is either in
\* the text of exactly one paragraph or in the glyph list of exactly one
\* formula group, never in both and never in neither, the glyphs that were
\* still in the formula buffer included; while the scan runs the same holds
\* with the formula buffer counted as the group in progress.
C1_EveryGlyphOnce ==
    \A g \in GlyphSet :
        \E pp \in {ParaPlaces(g)}, gp \in {GroupPlaces(g)},
           inBuf \in {IF pc = "scan" THEN Cardinality(BufferPlaces(g)) ELSE 0} :
            \/ /\ InOneParagraph(g, pp)
               /\ gp = {}
               /\ inBuf = 0
            \/ /\ pp = {}
               /\ Cardinality(gp) + inBuf = 1

\* a scan ended with glyphs in the buffer, after a paragraph got text
C1_Witness ==
    /\ pc = "scanned"
    /\ vstk # <<>>
    /\ \E g \in GlyphSet : ParaPlaces(g) # {}
    /\ \E g \in GlyphSet : GroupPlaces(g) # {} /\ g = Last(Last(var))

\* the placeholders the assembler appended to paragraph i
PlaceholdersIn(i) ==
    {j \in 1..Len(sstk[i]) : ssrc[i][j] < 0 /\ sstk[i][j] = "v"}

\* C2: for every paragraph, the number of placeholders appended to its text
\* is the number of formula groups closed while it was the last paragraph,
\* where a group closed by a region change counts for the paragraph that
\* was last before the change.
C2_PlaceholderCount ==
    \A i \in 1..Len(sstk) :
        Cardinality(PlaceholdersIn(i))
            = Cardinality({k \in 1..Len(var) : vpar[k] = i})

\* a group closed by a region change, announced in the first paragraph
C2_Witness ==
    /\ Len(sstk) = 2
    /\ Len(var) >= 1
    /\ vpar[1] = 1
    /\ PlaceholdersIn(1) # {}
    /\ RegionOf(var[1][1]) # RegionOf(Last(Glyphs))
    /\ Len(scanned) = 2

\* the adjacent pairs of glyphs that lie in different regions
RegionChanges ==
    {i \in 1..(Len(Glyphs) - 1) : RegionOf(Glyphs[i]) # RegionOf(Glyphs[i + 1])}

\* C8: a paragraph is started exactly at the first glyph and at every glyph
\* whose region id differs from the previous glyph's, whatever the glyph's
\* classification and whether or not a formula buffer was open: once a glyph
\* has been scanned, the number of paragraphs is one plus the number of
\* adjacent glyph pairs with different region ids.
C8_ParagraphPerRegionChange ==
    Len(pstk) = IF Glyphs = <<>> THEN 0 ELSE 1 + Cardinality(RegionChanges)

\* a formula glyph opened a paragraph while a formula buffer was open, and
\* a text glyph opened another
C8_Witness ==
    /\ Len(Glyphs) = 3
    /\ Len(pstk) = 3
    /\ Len(var) >= 1
    /\ vstk # <<>>
    /\ Len(sstk[3]) = 0
    /\ \E j \in 1..Len(ssrc[1]) : ssrc[1][j] > 0

\* C9: every paragraph has x0 <= x <= x1 after every glyph; its x never
\* changes, its x0 never increases and its x1 never decreases.
C9_ParagraphBounds ==
    /\ [](\A i \in 1..Len(pstk) : pstk[i].x0 <= pstk[i].x /\ pstk[i].x <= pstk[i].x1)
    /\ [][\A i \in 1..Len(pstk) :
            /\ pstk'[i].x = pstk[i].x
            /\ pstk'[i].x0 <= pstk[i].x0
            /\ pstk'[i].x1 >= pstk[i].x1]_vars

\* a paragraph that grew to the left and to the right of where it began
C9_Witness ==
    \E i \in 1..Len(pstk) :
        /\ pstk[i].x0 < pstk[i].x
        /\ pstk[i].x + 50 < pstk[i].x1
        /\ Last(Glyphs).x1 < pstk[i].x1

\* C10: a glyph whose mask cell is the sentinel 0 is formula whatever its
\* font, character and size: it is never part of a paragraph's text, it is
\* in the formula buffer or in a formula group, and in a group once the scan
\* has ended.
C10_MaskPrecedence ==
    \A g \in GlyphSet :
        RegionOf(g) = 0 =>
            /\ ParaPlaces(g) = {}
            /\ GroupPlaces(g) # {} \/ (pc = "scan" /\ BufferPlaces(g) # {})

\* a plain Latin letter of ordinary size in a reserved region, in a group
C10_Witness ==
    /\ pc = "scanned"
    /\ \E g \in GlyphSet :
        /\ RegionOf(g) = 0
        /\ g.text = <<"a">> /\ g.fontname = PlainFont /\ g.size = 100 /\ ~g.vert
        /\ ~vflag(g.fontname, g.text)
        /\ GroupPlaces(g) # {}

----------------------------------------------------------------------------
(* The claims about the orchestrator.                                      *)

\* C3: for any list of N paragraph texts and any order in which the worker
\* threads complete, the results collected so far are the translations of
\* the first paragraphs in order, and once the orchestrator has returned
\* there are exactly N of them.
C3_ResultsInIndexOrder ==
    /\ Len(news) <= Len(sstk)
    /\ \A i \in 1..Len(news) : news[i] \in Translations(sstk[i])
    /\ pc = "translated" => Len(news) = Len(sstk)

\* two different paragraphs, the second translated first
C3_Witness ==
    /\ pc = "translated"
    /\ Len(sstk) = 2
    /\ sstk[1] # sstk[2]
    /\ order = <<2, 1>>
    /\ cache0 = [k \in Keys |-> None]

\* the futures of text s that have completed
DoneOf(s) == {i \in 1..Len(sstk) : sstk[i] = s /\ fut[i].state = "done"}

\* the threads about to write the entry of key k
Writing(k) == {w \in Workers : wk[w].pc = "write" /\ KeyOf(w) = k}

\* C4 as claimed: whenever a text is translated twice, its key has seen
\* one translator call and one cache write, and both results are the same.
C4_OneCallOneWrite ==
    \A s \in Texts :
        Cardinality(DoneOf(s)) >= 2 =>
            /\ calls[ParagraphKey(s)] <= 1
            /\ writes[ParagraphKey(s)] <= 1
            /\ \A i, j \in DoneOf(s) : fut[i].val = fut[j].val

\* a hit: thread w leaves the lookup with an entry in the cache
Hit(w) == wk[w].pc = "load" /\ cache[KeyOf(w)] # None /\ wk'[w] # wk[w]

\* C4 as amended: every translator call that returns is followed by one
\* cache write under the same key; a worker that finds the entry returns it
\* without a call and without a write; and when the invocations for a key
\* do not overlap in time, the key sees at most one call that returns and
\* one write (none when the cache held the entry before the run, exactly
\* one otherwise) and every invocation returns the text the cache holds.
C4_Idempotent ==
    /\ [](\A s \in Texts :
            LET k == ParagraphKey(s)
            IN  /\ calls[k] = writes[k] + Cardinality(Writing(k))
                /\ k \notin raced =>
                      /\ calls[k] <= 1
                      /\ cache0[k] # None => calls[k] = 0
                      /\ (DoneOf(s) # {} /\ cache0[k] = None) =>
                            calls[k] = 1 /\ writes[k] = 1
                      /\ \A i \in DoneOf(s) : fut[i].val = cache[k])
    /\ [][\A w \in Workers :
            Hit(w) => /\ cache' = cache /\ calls' = calls /\ writes' = writes
                      /\ fut'[wk[w].item] = [state |-> "done", val |-> cache[KeyOf(w)]]]_vars

\* the same text translated twice, one after the other, from an empty
\* cache: a miss with its call and its write, then a hit
C4_Witness ==
    /\ pc = "translated"
    /\ sstk = << <<"a">>, <<"a">> >>
    /\ cache0[ParagraphKey(<<"a">>)] = None
    /\ raced = {}
    /\ calls[ParagraphKey(<<"a">>)] = 1
    /\ writes[ParagraphKey(<<"a">>)] = 1
    /\ news[1] = news[2]

\* the run needs a translation the translator never gives
NeedsBroken ==
    \E i \in 1..Len(sstk) :
        sstk[i] \in broken /\ cache[ParagraphKey(sstk[i])] = None

\* C5: a worker ends only by returning a translation: no future ever holds
\* a failure and the orchestrator never fails; if the run needs a text on
\* which the translator raises for ever, the orchestrator never returns;
\* and if every call that is retried returns at some time, the
\* orchestrator returns.
C5_RetryForEver ==
    /\ [](pc # "failed" /\ \A i \in 1..Len(fut) : fut[i].state # "raised")
    /\ [](NeedsBroken => pc # "translated")
    /\ (pc = "translate" /\ ~NeedsBroken) ~> (pc = "translated")

\* the orchestrator returned after a call had raised and was retried
C5_Witness ==
    /\ pc = "translated"
    /\ \E i \in 1..Len(sstk) :
        attempts[i] >= 1 /\ cache0[ParagraphKey(sstk[i])] = None

----------------------------------------------------------------------------
(* C. The retypesetter: the characters, the fonts and the instructions.    *)

\* The alphabet of the translated texts, with ord() of each character.
\* "zh" stands for one CJK character, U+4E2D, and "ext" for one CJK
\* character outside the basic plane, U+20000.
Chars == <<" ", "$", "(", ")", "+", ".", "0", "1", "2", "3", "4", "5", "6",
           "7", "8", "9", "T", "V", "^", "a", "b", "e", "h", "i", "l", "s",
           "u", "v", "zh", "ext">>
Codes == <<32, 36, 40, 41, 43, 46, 48, 49, 50, 51, 52, 53, 54,
           55, 56, 57, 84, 86, 94, 97, 98, 101, 104, 105, 108, 115,
           117, 118, 20013, 131072>>

\* ord(c)
Ord(c) == Codes[CHOOSE i \in 1..Len(Chars) : Chars[i] = c]

Digits == <<"0", "1", "2", "3", "4", "5", "6", "7", "8", "9">>

\* \d and \s of the regular expression, on the alphabet
IsDigit(c) == \E i \in 1..Len(Digits) : Digits[i] = c
IsSpace(c) == c = " "

\* "%x" % n
RECURSIVE Hex(_)
Hex(n) ==
    LET h == Digits \o <<"a", "b", "c", "d", "e", "f">>
    IN  IF n < 16 THEN <<h[n + 1]>> ELSE Hex(n \div 16) \o <<h[(n % 16) + 1]>>

\* "%0wx" % n: padded to w digits, and longer when n needs more
Format(w, n) == [i \in 1..(w - Len(Hex(n))) |-> "0"] \o Hex(n)

\* self.fontmap["tiro"].to_unichr(ord(ch)) == ch: the characters the Latin
\* font gives back; for any other the comparison fails or the call raises
TiroChars == {Chars[i] : i \in 1..Len(Chars)} \ {"zh", "ext"}

\* isinstance(self.fontmap[f], PDFCIDFont)
IsCIDFont(f) == f = "china-ss"

\* self.noto.has_glyph(ord(c)): the glyph index of the fallback font, a
\* number below 65536
NotoGlyph(code) ==
    IF code < 256 THEN code - 29
    ELSE IF code < 65536 THEN code - 8000
    ELSE code \div 4

\* self.fontid[vch.font]: the resource name of a font of the page
FontId(fontname) ==
    IF fontname = PlainFont THEN "F1" ELSE IF fontname = MathFont THEN "F2" ELSE "F3"

\* lines 377-383
raw_string(f, s) ==
    LET code(c) == IF f = "noto" THEN Format(4, NotoGlyph(Ord(c)))
                   ELSE IF IsCIDFont(f) THEN Format(4, Ord(c))
                   ELSE Format(2, Ord(c))
        join[k \in 0..Len(s)] == IF k = 0 THEN <<>> ELSE join[k - 1] \o code(s[k])
    IN  join[Len(s)]

\* mutant: the Latin font is not tried
ResolveFont_FallbackOnly(ch) == resfont

\* lines 423-429: the font of a literal character
ResolveFont(ch) == IF ch \in TiroChars THEN "tiro" ELSE resfont

\* lines 431-434: the advance of a literal character, a half of the size
\* for the Latin font and the size for the others
Advance(f, ch, size) ==
    IF f = "noto" THEN size
    ELSE IF f = "tiro" THEN size \div 2
    ELSE size

\* line 446: lang_space.get(lang_out, 1.1), in tenths
LangSpace(lang) ==
    IF lang \in {"zh-CN", "zh-TW"} THEN 14
    ELSE IF lang = "ja" THEN 11
    ELSE IF lang \in {"ko", "en"} THEN 12
    ELSE IF lang = "ar" THEN 10
    ELSE IF lang \in {"ru", "uk", "ta"} THEN 8
    ELSE 11

\* lines 442 and 478: a run of text
TextRun(f, size, rx, ry, s) ==
    [op |-> "TJ", font |-> f, size |-> size, x |-> rx, y |-> ry,
     str |-> raw_string(f, s), vid |-> -1]

\* line 454: a glyph of formula group vid; chr(vch.cid) is its character
GlyphRun(vch, gx, gy, vid) ==
    [op |-> "TJ", font |-> FontId(vch.fontname), size |-> vch.size,
     x |-> gx, y |-> gy,
     str |-> raw_string(FontId(vch.fontname), vch.text), vid |-> vid]

\* lines 460 and 481: a stroked segment from (lx, ly)
Stroke(lx, ly, l) ==
    [op |-> "l", x |-> lx, y |-> ly, dx |-> l.x1 - l.x0, dy |-> l.y1 - l.y0,
     linewidth |-> l.linewidth]

\* lines 456 and 474: LTLine(0.1, (_x, _y), (px, py))
TraceLine(px0, py0, px1, py1) ==
    [id |-> 0, type |-> "line", x0 |-> px0, y0 |-> py0, x1 |-> px1, y1 |-> py1,
     linewidth |-> 1]

\* mutant: a line of the width of the threshold is drawn
ThinLine_AtThreshold(l) == l.linewidth <= 50

\* lines 459 and 480: l.linewidth < 5
ThinLine(l) == l.linewidth < 50

\* line 412: the last glyph of the group is a modifier (Lm, Mn, Sk)
IsModifier(vch) == vch.text # <<>> /\ vch.text[1] \in {"^"}

----------------------------------------------------------------------------
(* C. The retypesetter: one turn of the loop over a translated text.       *)

\* lines 401-403: re.match(r"\$?\s*v([\d\s]+)\$", new[ptr:], re.IGNORECASE).
\* The match is anchored at ptr.  Each part takes all it can: a part that
\* gave characters back would leave the next part on a character it
\* cannot take, so the longest choice is the only one that can match.
MatchRef(new, p) ==
    LET n      == Len(new)
        At(i)  == IF i <= n THEN new[i] ELSE "end"
        i1     == IF At(p + 1) = "$" THEN p + 2 ELSE p + 1
        i2     == SetMin({k \in i1..(n + 1) : ~IsSpace(At(k))})
        j      == SetMin({k \in (i2 + 1)..(n + 2) :
                             k > n \/ ~(IsDigit(At(k)) \/ IsSpace(At(k)))})
        ok     == At(i2) \in {"v", "V"} /\ j > i2 + 1 /\ At(j) = "$"
    IN  [ok |-> ok,
         len |-> IF ok THEN j - p ELSE 0,
         group1 |-> IF ok THEN SubSeq(new, i2 + 1, j - 1) ELSE <<>>]

\* int(s), for a text of digits
DigitValue(c) == (CHOOSE i \in 1..Len(Digits) : Digits[i] = c) - 1

int(s) ==
    LET v[k \in 0..Len(s)] == IF k = 0 THEN 0 ELSE 10 * v[k - 1] + DigitValue(s[k])
    IN  v[Len(s)]

\* the try block raised
Raised == -1

\* mutant: an index past the last group names the last group
LoadFormula_Clamped(group1) ==
    LET d == SelectSeq(group1, IsDigit)
    IN  IF d = <<>> \/ vlen = <<>> THEN Raised
        ELSE Min2(int(d), Len(vlen) - 1)

\* lines 407-411: vid = int(group(1).replace(" ", "")); adv = vlen[vid].
\* int("") raises ValueError and vlen[vid] raises IndexError; both are
\* caught.  The result is vid, or Raised.
LoadFormula(group1) ==
    LET d == SelectSeq(group1, IsDigit)
    IN  IF d = <<>> THEN Raised
        ELSE IF int(d) >= Len(vlen) THEN Raised
        ELSE int(d)

\* the locals of the loop as one record
TypeState ==
    [x |-> x, y |-> y, cstk |-> cstk, fcur |-> fcur, fcur_ |-> fcur_, tx |-> tx,
     ptr |-> ptr, ops |-> ops, lstk |-> lstk, _x |-> _x, _y |-> _y]

\* lines 387-398: the locals when paragraph i begins
Begin(T, i) ==
    [T EXCEPT !.x = pstk[i].x, !.y = pstk[i].y, !.cstk = <<>>,
              !.fcur = NoFont, !.tx = pstk[i].x, !.fcur_ = NoFont, !.ptr = 0]

\* mutant: the cursor on the boundary plus the epsilon is over it
Over_AtEpsilon(T, p, adv) == T.x + adv >= p.x1 + p.size \div 10

\* lines 439 and 444: x + adv > x1 + 0.1 * size
Over(T, p, adv) == T.x + adv > p.x1 + p.size \div 10

\* lines 441-443 and 477-478: the pending run becomes an instruction
Flush(T, p) ==
    IF T.cstk # <<>>
    THEN [T EXCEPT !.ops = Append(@, TextRun(T.fcur, p.size, T.tx, T.y, T.cstk)),
                   !.cstk = <<>>]
    ELSE T

\* mutant: the cursor goes to the next line whether the paragraph had a
\* line break or not
Wrap_AnyParagraph(T, p, adv) ==
    IF Over(T, p, adv)
    THEN [T EXCEPT !.x = p.x0,
                   !.y = @ - (p.size * LangSpace(lang_out)) \div 10]
    ELSE T

\* lines 444-447: the cursor goes to the next line
Wrap(T, p, adv) ==
    IF p.brk /\ Over(T, p, adv)
    THEN [T EXCEPT !.x = p.x0,
                   !.y = @ - (p.size * LangSpace(lang_out)) \div 10]
    ELSE T

\* lines 455-457 and 473-475: the trace of a debug run
Trace(T, px, py) ==
    IF debug
    THEN [T EXCEPT !.lstk = Append(@, TraceLine(T._x, T._y, px, py)),
                   !._x = px, !._y = py]
    ELSE T

\* F(v), with v computed once: v is bound as the element of a set
Bind(v, F(_)) == CHOOSE r \in {F(e) : e \in {v}} : TRUE

\* lines 452-457: the glyphs of the group, from the k-th
RECURSIVE EmitGlyphs(_, _, _, _, _)
EmitGlyphs(T, v, fix, vid, k) ==
    IF k > Len(v) THEN T
    ELSE LET gx == T.x + v[k].x0 - v[1].x0
             gy == fix + T.y + v[k].y0 - v[1].y0
         IN  Bind(Trace([T EXCEPT !.ops = Append(@, GlyphRun(v[k], gx, gy, vid))],
                        gx, gy),
                  LAMBDA T1 : EmitGlyphs(T1, v, fix, vid, k + 1))

\* lines 458-460: the lines of the group, from the k-th
RECURSIVE EmitGroupLines(_, _, _, _, _)
EmitGroupLines(T, vl, v0, fix, k) ==
    IF k > Len(vl) THEN T
    ELSE LET l == vl[k]
         IN  Bind(IF ThinLine(l)
                  THEN [T EXCEPT !.ops = Append(@,
                           Stroke(l.x0 + T.x - v0.x0, l.y0 + fix + T.y - v0.y0, l))]
                  ELSE T,
                  LAMBDA T1 : EmitGroupLines(T1, vl, v0, fix, k + 1))

\* mutant: the run in progress is not flushed at a reference and goes on
\* after the formula
TypesetFormula_NoFlush(T, p, vid) ==
    LET v   == var[vid + 1]
        adv == vlen[vid + 1]
        mod == IF IsModifier(Last(v)) THEN Last(v).x1 - Last(v).x0 ELSE 0
        fix == IF T.fcur # NoFont THEN varf[vid + 1] ELSE 0
    IN  Bind(Wrap(T, p, adv), LAMBDA T2 :
        Bind(EmitGlyphs(T2, v, fix, vid, 1), LAMBDA T3 :
        Bind(EmitGroupLines(T3, varl[vid + 1], v[1], fix, 1), LAMBDA T4 :
        Bind([T4 EXCEPT !.fcur = T.fcur_, !.x = @ + adv - mod], LAMBDA T5 :
        Trace(T5, T5.x, T5.y)))))

\* mutant: the correction of the group is applied wherever the reference is
TypesetFormula_AlwaysFix(T, p, vid) ==
    LET v   == var[vid + 1]
        adv == vlen[vid + 1]
        mod == IF IsModifier(Last(v)) THEN Last(v).x1 - Last(v).x0 ELSE 0
        fix == varf[vid + 1]
    IN  Bind(Wrap(Flush(T, p), p, adv), LAMBDA T2 :
        Bind(EmitGlyphs(T2, v, fix, vid, 1), LAMBDA T3 :
        Bind(EmitGroupLines(T3, varl[vid + 1], v[1], fix, 1), LAMBDA T4 :
        Bind([T4 EXCEPT !.fcur = T.fcur_, !.x = @ + adv - mod], LAMBDA T5 :
        Trace(T5, T5.x, T5.y)))))

\* lines 405-413, 436-460 and 470-475: a reference to group vid
TypesetFormula(T, p, vid) ==
    LET v   == var[vid + 1]
        adv == vlen[vid + 1]
        mod == IF IsModifier(Last(v)) THEN Last(v).x1 - Last(v).x0 ELSE 0
        fix == IF T.fcur # NoFont THEN varf[vid + 1] ELSE 0
    IN  Bind(Wrap(Flush(T, p), p, adv), LAMBDA T2 :
        Bind(EmitGlyphs(T2, v, fix, vid, 1), LAMBDA T3 :
        Bind(EmitGroupLines(T3, varl[vid + 1], v[1], fix, 1), LAMBDA T4 :
        Bind([T4 EXCEPT !.fcur = T.fcur_, !.x = @ + adv - mod], LAMBDA T5 :
        Trace(T5, T5.x, T5.y)))))

\* mutant: a change of font does not flush the run in progress
TypesetChar_NoFontFlush(T, p, ch) ==
    LET f   == ResolveFont(ch)
        adv == Advance(f, ch, p.size)
        T0  == [T EXCEPT !.fcur_ = f, !.ptr = @ + 1]
    IN  Bind(Wrap(IF Over(T, p, adv) THEN Flush(T0, p) ELSE T0, p, adv),
             LAMBDA T2 :
        LET first == T2.cstk = <<>>
            elide == first /\ T2.x = p.x0 /\ ch = " "
        IN  Bind([T2 EXCEPT !.tx = IF first THEN T2.x ELSE @,
                            !.cstk = IF elide THEN @ ELSE Append(@, ch),
                            !.fcur = f,
                            !.x = @ + (IF elide THEN 0 ELSE adv)],
                 LAMBDA T4 : Trace(T4, T4.x, T4.y)))

\* lines 414-447 and 461-475: a literal character
TypesetChar(T, p, ch) ==
    LET f   == ResolveFont(ch)
        adv == Advance(f, ch, p.size)
        T0  == [T EXCEPT !.fcur_ = f, !.ptr = @ + 1]
    IN  Bind(Wrap(IF f # T.fcur \/ Over(T, p, adv) THEN Flush(T0, p) ELSE T0, p, adv),
             LAMBDA T2 :
        LET first == T2.cstk = <<>>
            elide == first /\ T2.x = p.x0 /\ ch = " "
        IN  Bind([T2 EXCEPT !.tx = IF first THEN T2.x ELSE @,
                            !.cstk = IF elide THEN @ ELSE Append(@, ch),
                            !.fcur = f,
                            !.x = @ + (IF elide THEN 0 ELSE adv)],
                 LAMBDA T4 : Trace(T4, T4.x, T4.y)))

\* mutant: a reference that names no group is left where it is
TypesetStep_SkipStays(T, p, new) ==
    Bind(MatchRef(new, T.ptr), LAMBDA m :
    IF m.ok
    THEN Bind(LoadFormula(m.group1), LAMBDA vid :
         Bind([T EXCEPT !.ptr = @ + m.len], LAMBDA R :
         IF vid = Raised THEN T ELSE TypesetFormula(R, p, vid)))
    ELSE TypesetChar(T, p, new[T.ptr + 1]))

\* lines 400-475: one turn of the while loop
TypesetStep(T, p, new) ==
    Bind(MatchRef(new, T.ptr), LAMBDA m :
    IF m.ok
    THEN Bind(LoadFormula(m.group1), LAMBDA vid :
         Bind([T EXCEPT !.ptr = @ + m.len], LAMBDA R :
         IF vid = Raised THEN R ELSE TypesetFormula(R, p, vid)))
    ELSE TypesetChar(T, p, new[T.ptr + 1]))

\* lines 479-482: the global lines, and the text object around it all
RECURSIVE EmitGlobalLines(_, _, _)
EmitGlobalLines(o, ls, k) ==
    IF k > Len(ls) THEN o
    ELSE EmitGlobalLines(IF ThinLine(ls[k])
                         THEN Append(o, Stroke(ls[k].x0, ls[k].y0, ls[k]))
                         ELSE o, ls, k + 1)

----------------------------------------------------------------------------
(* C. The retypesetter: the pages it is given, and its actions.            *)

\* the kinds of glyph of the pages that are typeset
TextKind  == [text |-> <<"a">>, fontname |-> PlainFont, size |-> 100, y0 |-> 0,  vert |-> FALSE]
SmallKind == [text |-> <<"a">>, fontname |-> PlainFont, size |-> 70,  y0 |-> 30, vert |-> FALSE]
MathKind  == [text |-> <<"a">>, fontname |-> MathFont,  size |-> 100, y0 |-> 0,  vert |-> FALSE]
HatKind   == [text |-> <<"^">>, fontname |-> MathFont,  size |-> 100, y0 |-> 20, vert |-> FALSE]
RaisedKind == [text |-> <<"a">>, fontname |-> MathFont, size |-> 100, y0 |-> 30, vert |-> FALSE]

\* The pages that are typeset: a mask and the children of the page.
\*   1. text, a subscript, text
\*   2. a paragraph of two lines that ends with a formula whose last glyph
\*      is a modifier
\*   3. two regions: a paragraph with a formula, and a paragraph
\*   4. a formula with two lines of its own, one thin and one thick, before
\*      text, and three global lines, of widths 0.1, 6 and 5
\*   5. a page with no glyph
\*   6. text, a formula above the line of the text, text
TypesetPages == {
    [layout |-> <<1, 1, 1>>,
     children |-> <<Glyph(1, TextKind, 0), Glyph(2, SmallKind, 50),
                    Glyph(3, TextKind, 100)>>],
    [layout |-> <<1, 1, 1>>,
     children |-> <<Glyph(1, TextKind, 200), Glyph(2, TextKind, 0),
                    Glyph(3, MathKind, 50), Glyph(4, HatKind, 100)>>],
    [layout |-> <<1, 1, 2>>,
     children |-> <<Glyph(1, TextKind, 0), Glyph(2, MathKind, 50),
                    Glyph(3, TextKind, 200)>>],
    [layout |-> <<1, 1, 1>>,
     children |-> <<Line(1, 0, 1), Glyph(2, MathKind, 0), Line(3, 0, 1),
                    Line(4, 0, 60), Glyph(5, TextKind, 50), Line(6, 200, 60),
                    Line(7, 200, 50)>>],
    [layout |-> <<1, 1, 1>>, children |-> <<>>],
    [layout |-> <<1, 1, 1>>,
     children |-> <<Glyph(1, TextKind, 0), Glyph(2, RaisedKind, 50),
                    Glyph(3, TextKind, 100)>>]
}

\* the locals of receive_layout when it begins
S0 ==
    [sstk |-> <<>>, ssrc |-> <<>>, pstk |-> <<>>, vbkt |-> 0,
     vstk |-> <<>>, vlstk |-> <<>>, vfix |-> 0,
     var |-> <<>>, varl |-> <<>>, varf |-> <<>>,
     lstk |-> <<>>, xt |-> NoGlyph, xt_cls |-> -1]

\* part A on the children of a page, from the k-th: the locals, and the
\* history of the groups closed.  A turn's result is bound as an element
\* of a set, so that it is computed once.
RECURSIVE ScanAll(_, _, _, _)
ScanAll(S, vp, children, k) ==
    LET grow(S1) == vp \o [i \in 1..(Len(S1.var) - Len(S.var)) |-> Len(S.sstk)]
    IN  IF k > Len(children)
        THEN [S |-> FlushTail(S), vpar |-> grow(FlushTail(S))]
        ELSE CHOOSE R \in
                 {ScanAll(S1, grow(S1), children, k + 1) :
                    S1 \in {IF children[k].type = "char"
                            THEN ScanGlyph(S, children[k])
                            ELSE ScanLineItem(S, children[k])}} : TRUE

\* What a translator can answer for a paragraph, besides the paragraph
\* itself: references that are valid, out of range, without digits, without
\* their first "$", with spaces; characters of the two fonts, of one, two
\* and three bytes; a line that is too long.
NewsTexts == {
    <<"a", "$", "v", "0", "$", "b">>,
    <<"$", "v", "9", "$", "a">>,
    <<"a", "$", "v", " ", "$", "zh">>,
    <<"zh", " ", "v", "0", "$", "a">>,
    <<" ", "a", " ", "zh">>,
    <<"a", "a", "a", "a", "a", "a", "$", "v", "0", "$">>,
    <<"$", "v", "1", "$", "$", "V", "0", " ", "$">>,
    <<"zh", "ext">>
}

ResFonts == {"noto", "china-ss"}

LangOuts == {"zh-CN", "ru", "fr"}

\* the locals of the loop go back to the variables
StoreType(T) ==
    /\ x' = T.x /\ y' = T.y /\ cstk' = T.cstk /\ fcur' = T.fcur /\ fcur_' = T.fcur_
    /\ tx' = T.tx /\ ptr' = T.ptr /\ ops' = T.ops /\ lstk' = T.lstk
    /\ _x' = T._x /\ _y' = T._y

\* the state when part C begins, parts A and B done, for a page of pgs and
\* translations that are the paragraph's own text or a text of texts
InitTypeOn(pgs, texts) ==
    /\ pc = "retypeset"
    /\ OrchQuiet /\ DocIdle /\ FigIdle /\ ApiIdle /\ TaskIdle /\ LimIdle
    /\ \E pg \in pgs :
         /\ layout = pg.layout
         /\ scanned = pg.children
         /\ \E R \in {ScanAll(S0, <<>>, pg.children, 1)} :
                /\ sstk = R.S.sstk /\ ssrc = R.S.ssrc /\ pstk = R.S.pstk
                /\ vbkt = R.S.vbkt /\ vstk = R.S.vstk /\ vlstk = R.S.vlstk
                /\ vfix = R.S.vfix /\ var = R.S.var /\ varl = R.S.varl
                /\ varf = R.S.varf /\ lstk = R.S.lstk /\ xt = R.S.xt
                /\ xt_cls = R.S.xt_cls /\ vpar = R.vpar
                /\ vlen = [i \in 1..Len(R.S.var) |-> FormulaWidth(R.S.var[i])]
    /\ news \in {n \in [1..Len(sstk) -> texts \cup {sstk[i] : i \in 1..Len(sstk)}] :
                    \A i \in 1..Len(sstk) : n[i] \in texts \cup {sstk[i]}}
    /\ resfont \in ResFonts /\ debug \in BOOLEAN /\ lang_out \in LangOuts
    /\ id = 1 /\ ops = <<>> /\ _x = 0 /\ _y = 0 /\ skips = <<>>
    /\ IF pstk # <<>>
       THEN /\ x = pstk[1].x /\ y = pstk[1].y /\ tx = pstk[1].x
       ELSE /\ x = 0 /\ y = 0 /\ tx = 0
    /\ cstk = <<>> /\ fcur = NoFont /\ fcur_ = NoFont /\ ptr = 0

InitType == InitTypeOn(TypesetPages, NewsTexts)

\* the loop is in a paragraph, before the end of its text
InText == pc = "retypeset" /\ id <= Len(news) /\ ptr < Len(news[id])

\* the reference the read pointer stands at
RefHere == MatchRef(news[id], ptr)

asmRest == <<layout, scanned, sstk, ssrc, pstk, vbkt, vstk, vlstk, vfix,
             var, varl, varf, vlen, vpar, xt, xt_cls>>

\* a turn of the loop at a reference that names a group
TypesetRef ==
    /\ InText
    /\ RefHere.ok /\ LoadFormula(RefHere.group1) # Raised
    /\ \E T \in {TypesetStep(TypeState, pstk[id], news[id])} : StoreType(T)
    /\ UNCHANGED <<taskVars, limVars, apiVars, figVars, pc, asmRest, orchVars, docVars, resfont, debug, lang_out, id, skips>>

\* a turn of the loop at a reference that names no group: continue
TypesetSkip ==
    /\ InText
    /\ RefHere.ok /\ LoadFormula(RefHere.group1) = Raised
    /\ \E T \in {TypesetStep(TypeState, pstk[id], news[id])} : StoreType(T)
    /\ skips' = Append(skips, [id |-> id, ptr |-> ptr])
    /\ UNCHANGED <<taskVars, limVars, apiVars, figVars, pc, asmRest, orchVars, docVars, resfont, debug, lang_out, id>>

\* a turn of the loop at a literal character
TypesetLiteral ==
    /\ InText
    /\ ~RefHere.ok
    /\ \E T \in {TypesetStep(TypeState, pstk[id], news[id])} : StoreType(T)
    /\ UNCHANGED <<taskVars, limVars, apiVars, figVars, pc, asmRest, orchVars, docVars, resfont, debug, lang_out, id, skips>>

\* lines 477-478 and 386-398: the text is read; the run left is flushed and
\* the next paragraph, if there is one, begins
EndParagraph ==
    /\ pc = "retypeset" /\ id <= Len(news) /\ ptr >= Len(news[id])
    /\ id' = id + 1
    /\ \E T \in {Flush(TypeState, pstk[id])} :
          StoreType(IF id < Len(news) THEN Begin(T, id + 1) ELSE T)
    /\ UNCHANGED <<taskVars, limVars, apiVars, figVars, pc, asmRest, orchVars, docVars, resfont, debug, lang_out, skips>>

\* lines 479-483: the global lines are emitted and ops is returned
ReturnOps ==
    /\ pc = "retypeset" /\ id > Len(news)
    /\ ops' = <<[op |-> "BT"]>> \o EmitGlobalLines(ops, lstk, 1) \o <<[op |-> "ET"]>>
    /\ pc' = "returned"
    /\ UNCHANGED <<taskVars, limVars, apiVars, figVars, asmVars, orchVars, docVars, resfont, debug, lang_out, id, x, y,
                   cstk, fcur, fcur_, tx, ptr, _x, _y, skips>>

NextType == TypesetRef \/ TypesetSkip \/ TypesetLiteral \/ EndParagraph \/ ReturnOps

SpecType == InitType /\ [][NextType]_vars

\* the loop is one thread, which runs on
SpecTypeFair == SpecType /\ WF_vars(NextType)

----------------------------------------------------------------------------
(* C. The retypesetter at the right boundary of a paragraph.               *)

\* Pages of one paragraph of two lines: a letter and, back at the left, a
\* formula of one glyph.  The right boundary is 5 points right of the
\* first letter: at 13.9, 14 and 15 points.
RightEdges == {89, 90, 100}

EdgePages ==
    {[layout |-> <<1, 1, 1>>,
      children |-> <<Glyph(1, TextKind, at), Glyph(2, MathKind, 0)>>] :
        at \in RightEdges}

\* The page of the scenario: one paragraph of one line, with a formula
\* group 12 points wide and the right boundary at 9999 points
ScenarioPage ==
    [layout |-> <<1, 1, 1>>,
     children |-> <<Glyph(1, TextKind, 0), Glyph(2, MathKind, 50),
                    Glyph(3, MathKind, 120), Glyph(4, TextKind, 99940)>>]

\* "The value is $v0$."
ScenarioText ==
    <<"T", "h", "e", " ", "v", "a", "l", "u", "e", " ", "i", "s", " ",
      "$", "v", "0", "$", ".">>

\* translations that come to the boundary with a letter and with a formula
EdgeTexts == {
    <<"a", "a", "a", "a">>,
    <<"a", "a", "$", "v", "0", "$", "a">>,
    <<"a", "a", "a", "$", "v", "0", "$">>,
    <<"a", "zh", "$", "v", "9", "$", "a">>,
    ScenarioText
}

InitEdge == InitTypeOn(EdgePages \cup {ScenarioPage}, EdgeTexts)

SpecEdge == InitEdge /\ [][NextType]_vars

----------------------------------------------------------------------------
(* D. The page loop of extract_text_to_fp.                                 *)

\* the largest document of the model
MaxPages == 3

\* pages and pageno not in pages: the negation, the page is processed
Selected(p) == pages = {} \/ p \in pages

\* interpreter.process_page(page) raises: the page's instruction stream
\* cannot be interpreted
ProcessPageRaises(p) == p \in undecodable

InitDoc ==
    /\ pc = "pages"
    /\ AsmIdle /\ sstk = <<>> /\ OrchIdle /\ TypeIdle /\ FigIdle /\ ApiIdle /\ TaskIdle /\ LimIdle
    /\ total \in 1..MaxPages
    /\ pages \in SUBSET (0..(total - 1))
    /\ undecodable \in SUBSET (0..(total - 1))
    /\ callback \in BOOLEAN
    /\ pageno = 0 /\ progress = <<>> /\ processed = <<>>

\* lines 87-88: a page that is not selected
SkipPage ==
    /\ pc = "pages" /\ pageno < total
    /\ ~Selected(pageno)
    /\ pageno' = pageno + 1
    /\ UNCHANGED <<taskVars, limVars, apiVars, figVars, pc, asmVars, orchVars, typeVars, total, pages, callback,
                   undecodable, progress, processed>>

\* lines 90-107: a selected page, which process_page returns for
ProcessPage ==
    /\ pc = "pages" /\ pageno < total
    /\ Selected(pageno) /\ ~ProcessPageRaises(pageno)
    /\ progress' = IF callback THEN Append(progress, pageno + 1) ELSE progress
    /\ processed' = Append(processed, pageno)
    /\ pageno' = pageno + 1
    /\ UNCHANGED <<taskVars, limVars, apiVars, figVars, pc, asmVars, orchVars, typeVars, total, pages, callback,
                   undecodable>>

\* lines 90-107: a selected page, which process_page raises for.  Nothing
\* in the loop or around it catches: the exception leaves the function.
PageRaises ==
    /\ pc = "pages" /\ pageno < total
    /\ Selected(pageno) /\ ProcessPageRaises(pageno)
    /\ progress' = IF callback THEN Append(progress, pageno + 1) ELSE progress
    /\ pc' = "raised"
    /\ UNCHANGED <<taskVars, limVars, apiVars, figVars, asmVars, orchVars, typeVars, total, pages, callback,
                   undecodable, pageno, processed>>

\* lines 109-110: the pages are exhausted; device.close() and return
CloseDevice ==
    /\ pc = "pages" /\ pageno = total
    /\ pc' = "closed"
    /\ UNCHANGED <<taskVars, limVars, apiVars, figVars, asmVars, orchVars, typeVars, docVars>>

NextDoc == SkipPage \/ ProcessPage \/ PageRaises \/ CloseDevice

SpecDoc == InitDoc /\ [][NextDoc]_vars

----------------------------------------------------------------------------
(* A. The scan of pages that show quoted text.                             *)

QuoteKind == [text |-> <<"\"">>, fontname |-> PlainFont, size |-> 100, y0 |-> 0, vert |-> FALSE]
PlusKind  == [text |-> <<"+">>,  fontname |-> PlainFont, size |-> 100, y0 |-> 0, vert |-> FALSE]
VertKind  == [text |-> <<"a">>,  fontname |-> PlainFont, size |-> 100, y0 |-> 0, vert |-> TRUE]

\* the kinds of glyph of a page with quotes: the quote, and Latin letters
\* and a sign that the rules classify differently
QuoteKinds == {QuoteKind, TextKind, SmallKind, MathKind, VertKind, PlusKind}

\* for child in ltpage: an LTChar of a page with quotes
ScanQuoted ==
    /\ pc = "scan"
    /\ Len(scanned) < MaxChildren
    /\ \E k \in QuoteKinds, at \in XPos :
         LET child == Glyph(Len(scanned) + 1, k, at)
         IN  /\ Store(ScanGlyph(AsmState, child))
             /\ scanned' = Append(scanned, child)
    /\ UNCHANGED <<taskVars, limVars, apiVars, figVars, pc, layout, vlen, orchVars, typeVars, docVars>>

NextQuote == ScanQuoted \/ EndScan

SpecQuote == InitAsm /\ [][NextQuote]_vars

----------------------------------------------------------------------------
(* A. The scan of pages whose glyphs are of sizes about 0.79 of one        *)
(* another.                                                                *)

AtKind    == [text |-> <<"a">>, fontname |-> PlainFont, size |-> 79, y0 |-> 0, vert |-> FALSE]
BelowKind == [text |-> <<"a">>, fontname |-> PlainFont, size |-> 78, y0 |-> 0, vert |-> FALSE]

\* the kinds of glyph of such a page: a letter of size 10, of size 7.9 and
\* of size 7.8, and a letter in a math font
SizedKinds == {TextKind, AtKind, BelowKind, MathKind}

\* for child in ltpage: an LTChar of a page of sizes
ScanSized ==
    /\ pc = "scan"
    /\ Len(scanned) < MaxChildren
    /\ \E k \in SizedKinds, at \in XPos :
         LET child == Glyph(Len(scanned) + 1, k, at)
         IN  /\ Store(ScanGlyph(AsmState, child))
             /\ scanned' = Append(scanned, child)
    /\ UNCHANGED <<taskVars, limVars, apiVars, figVars, pc, layout, vlen, orchVars, typeVars, docVars>>

NextSized == ScanSized \/ EndScan

SpecSized == InitAsm /\ [][NextSized]_vars

----------------------------------------------------------------------------
(* A. The scan of pages with letters of a bold font and of several sizes.  *)

BoldKind == [text |-> <<"a">>, fontname |-> BoldFont, size |-> 100, y0 |-> 0, vert |-> FALSE]

\* the kinds of glyph of such a page
StyledKinds == {TextKind, AtKind, BelowKind, BoldKind, MathKind}

\* for child in ltpage: an LTChar of a page of styles
ScanStyled ==
    /\ pc = "scan"
    /\ Len(scanned) < MaxChildren
    /\ \E k \in StyledKinds, at \in XPos :
         LET child == Glyph(Len(scanned) + 1, k, at)
         IN  /\ Store(ScanGlyph(AsmState, child))
             /\ scanned' = Append(scanned, child)
    /\ UNCHANGED <<taskVars, limVars, apiVars, figVars, pc, layout, vlen, orchVars, typeVars, docVars>>

NextStyled == ScanStyled \/ EndScan

SpecStyled == InitAsm /\ [][NextStyled]_vars

(* The containers of a page: PDFConverterEx, lines 41-65 and 98.           *)
(* The interpreter calls begin_page, then render_char, begin_figure and    *)
(* end_figure, nested as the XObjects of the page are, then end_page.      *)

\* the glyphs and figures a page holds, at most
MaxItems == 4

FigureNames == {"Im1", "Im2"}

\* a figure that has no pageid attribute yet
NoPageId == -1

\* line 47: LTPage(page.pageno, mediabox)
LTPage(pn) == [kind |-> "page", name |-> "", pageid |-> pn, objs |-> <<>>]

\* line 56: LTFigure(name, bbox, matrix)
LTFigure(name) == [kind |-> "figure", name |-> name, pageid |-> NoPageId, objs |-> <<>>]

\* line 81: the LTChar of render_char
LTChar == [kind |-> "char", name |-> "", pageid |-> NoPageId, objs |-> <<>>]

\* lines 64 and 98: container.add(item)
Add(container, item) == [container EXCEPT !.objs = Append(@, item)]

\* mutant: the figure is left without the page id
NewFigure_NoPageId(name, stk) == LTFigure(name)

\* lines 56-57: the figure takes the page id of the top of the stack
NewFigure(name, stk) == [LTFigure(name) EXCEPT !.pageid = Last(stk).pageid]

\* the items a container holds, itself included
RECURSIVE ItemsIn(_)
ItemsIn(item) ==
    LET sum[k \in 0..Len(item.objs)] ==
            IF k = 0 THEN 0 ELSE sum[k - 1] + ItemsIn(item.objs[k])
    IN  1 + sum[Len(item.objs)]

\* the glyphs and figures of the page so far
Held ==
    LET sum[k \in 0..Len(_stack)] ==
            IF k = 0 THEN 0 ELSE sum[k - 1] + ItemsIn(_stack[k])
    IN  ItemsIn(cur_item) + sum[Len(_stack)] - 1

InitFig ==
    /\ pc = "interpret"
    /\ AsmIdle /\ sstk = <<>> /\ OrchIdle /\ TypeIdle /\ DocIdle /\ FigIdle /\ ApiIdle /\ TaskIdle /\ LimIdle

\* lines 41-47: begin_page
BeginPage ==
    /\ pc = "interpret"
    /\ \E pn \in 1..MaxPages : cur_item' = LTPage(pn)
    /\ pc' = "page"
    /\ UNCHANGED <<taskVars, limVars, apiVars, asmVars, orchVars, typeVars, docVars, _stack>>

\* lines 67-99: render_char adds a glyph to the current container
RenderChar ==
    /\ pc = "page" /\ Held < MaxItems
    /\ cur_item' = Add(cur_item, LTChar)
    /\ UNCHANGED <<taskVars, limVars, apiVars, pc, asmVars, orchVars, typeVars, docVars, _stack>>

\* lines 53-57: begin_figure
BeginFigure ==
    /\ pc = "page" /\ Held < MaxItems
    /\ _stack' = Append(_stack, cur_item)
    /\ \E name \in FigureNames : cur_item' = NewFigure(name, _stack')
    /\ UNCHANGED <<taskVars, limVars, apiVars, pc, asmVars, orchVars, typeVars, docVars>>

\* lines 59-65: end_figure, of the figure that is open
EndFigure ==
    /\ pc = "page" /\ cur_item.kind = "figure"
    /\ cur_item' = Add(Last(_stack), cur_item)
    /\ _stack' = SubSeq(_stack, 1, Len(_stack) - 1)
    /\ UNCHANGED <<taskVars, limVars, apiVars, pc, asmVars, orchVars, typeVars, docVars>>

\* lines 49-51: end_page, when every figure is closed
EndPage ==
    /\ pc = "page" /\ cur_item.kind = "page"
    /\ pc' = "interpret"
    /\ UNCHANGED <<taskVars, limVars, apiVars, asmVars, orchVars, typeVars, docVars, figVars>>

NextFig == BeginPage \/ RenderChar \/ BeginFigure \/ EndFigure \/ EndPage

SpecFig == InitFig /\ [][NextFig]_vars

----------------------------------------------------------------------------

(* C. The retypesetter under the identity translator: the translation of   *)
(* every paragraph is its source text.                                     *)

\* text glyphs that show the characters of a placeholder
VKind      == [text |-> <<"v">>, fontname |-> PlainFont, size |-> 100, y0 |-> 0, vert |-> FALSE]
ZeroKind   == [text |-> <<"0">>, fontname |-> PlainFont, size |-> 100, y0 |-> 0, vert |-> FALSE]
OneKind    == [text |-> <<"1">>, fontname |-> PlainFont, size |-> 100, y0 |-> 0, vert |-> FALSE]
DollarKind == [text |-> <<"$">>, fontname |-> PlainFont, size |-> 100, y0 |-> 0, vert |-> FALSE]

\* The pages: one paragraph each, the texts of which are
\*   1. a$v0$a      2. v$v0$      3. $$v0$      4. $v0$1
\*   5. v0$v0$      6. v1$v0$     7. a$v0$a$v1$
IdentityPages == {
    [layout |-> <<1, 1, 1>>,
     children |-> <<Glyph(1, TextKind, 0), Glyph(2, MathKind, 50),
                    Glyph(3, TextKind, 100)>>],
    [layout |-> <<1, 1, 1>>,
     children |-> <<Glyph(1, VKind, 0), Glyph(2, MathKind, 50)>>],
    [layout |-> <<1, 1, 1>>,
     children |-> <<Glyph(1, DollarKind, 0), Glyph(2, MathKind, 50)>>],
    [layout |-> <<1, 1, 1>>,
     children |-> <<Glyph(1, MathKind, 0), Glyph(2, OneKind, 50)>>],
    [layout |-> <<1, 1, 1>>,
     children |-> <<Glyph(1, VKind, 0), Glyph(2, ZeroKind, 50),
                    Glyph(3, MathKind, 100)>>],
    [layout |-> <<1, 1, 1>>,
     children |-> <<Glyph(1, VKind, 0), Glyph(2, OneKind, 50),
                    Glyph(3, MathKind, 100)>>],
    [layout |-> <<1, 1, 1>>,
     children |-> <<Glyph(1, TextKind, 0), Glyph(2, MathKind, 50),
                    Glyph(3, TextKind, 100), Glyph(4, MathKind, 150)>>]
}

\* news = sstk: no text but the paragraph's own
InitIdentity == InitTypeOn(IdentityPages, {})

SpecIdentity == InitIdentity /\ [][NextType]_vars

----------------------------------------------------------------------------

(* D. The API of api.py: /upload and /translate for one task id, and the  *)
(* background jobs. A handler has no await between its reads and writes    *)
(* of the status: it is one step. A job is three: it begins, it reports    *)
(* progress, it ends; requests are served between them when the response   *)
(* of /translate is being sent and when several server processes share the *)
(* store. The field last_updated of a record is left out.                  *)

\* the jobs a run adds, at most
MaxJobs == 2

\* lines 120-126: TaskStatus
PENDING == "pending"
PROCESSING == "processing"
COMPLETED == "completed"
FAILED == "failed"

\* lines 99-107: the keys of service_map, and a service that is not one
Services == {"Google", "Baidu"}
ValidService(service) == service \in {"Google", "DeepL", "DeepLX", "Ollama", "OpenAI", "Azure", "Tencent"}

\* lines 109-119: lang_map.get(request.lang_to), for names in and not in it
Languages == {"Chinese", "Klingon"}
ValidLanguage(lang) ==
    lang \in {"Chinese", "English", "French", "German", "Japanese", "Korean",
              "Russian", "Spanish", "Italian"}

Requests == [service : Services, lang_to : Languages]

\* lines 322-330 and 390-398: initial_status
InitialStatus ==
    [status |-> PENDING, progress |-> 0, error |-> "None", output_file |-> "None"]

\* a record a run of before has left: a translation that failed
FailedStatus ==
    [status |-> FAILED, progress |-> 0, error |-> "e", output_file |-> "None"]

Answer(request, code, status) == [request |-> request, code |-> code, status |-> status]

\* lines 346-447: translate_pdf; starts tells that a job is added
TranslateOutcome(rec, dir, req) ==
    IF rec # NoRecord /\ rec.status = PROCESSING
    THEN [rec |-> rec, starts |-> FALSE, answer |-> Answer("translate", 200, PROCESSING)]
    ELSE IF rec # NoRecord /\ rec.status = COMPLETED
    THEN [rec |-> rec, starts |-> FALSE, answer |-> Answer("translate", 200, COMPLETED)]
    ELSE IF dir = "none"
    THEN [rec |-> rec, starts |-> FALSE, answer |-> Answer("translate", 404, "none")]
    ELSE IF dir = "empty"
    THEN [rec |-> rec, starts |-> FALSE, answer |-> Answer("translate", 404, "none")]
    ELSE IF ~ValidService(req.service)
    THEN [rec |-> InitialStatus, starts |-> FALSE, answer |-> Answer("translate", 400, "none")]
    ELSE IF ~ValidLanguage(req.lang_to)
    THEN [rec |-> InitialStatus, starts |-> FALSE, answer |-> Answer("translate", 400, "none")]
    ELSE [rec |-> InitialStatus, starts |-> TRUE, answer |-> Answer("translate", 200, PENDING)]

InitApi ==
    /\ pc = "serve"
    /\ AsmIdle /\ sstk = <<>> /\ OrchIdle /\ TypeIdle /\ DocIdle /\ FigIdle
    /\ TaskIdle /\ LimIdle
    /\ translation_tasks \in {NoRecord, FailedStatus}
    /\ task_dir \in {"none", "empty", "pdf"}
    /\ background_tasks = <<>>
    /\ response = NoResponse

apiRest == <<pc, asmVars, orchVars, typeVars, docVars, figVars>>

\* lines 269-345: upload_file, of a PDF
UploadFile ==
    /\ pc = "serve"
    /\ IF translation_tasks # NoRecord /\ translation_tasks.status = COMPLETED
       THEN /\ response' = Answer("upload", 200, "exists")
            /\ UNCHANGED <<taskVars, limVars, translation_tasks, task_dir>>
       ELSE /\ task_dir' = "pdf"
            /\ translation_tasks' = InitialStatus
            /\ response' = Answer("upload", 200, PENDING)
    /\ UNCHANGED <<taskVars, limVars, apiRest, background_tasks>>

\* lines 346-447: translate_pdf
TranslatePdf ==
    /\ pc = "serve"
    /\ \E req \in Requests :
         \E o \in {TranslateOutcome(translation_tasks, task_dir, req)} :
            /\ o.starts => Len(background_tasks) < MaxJobs
            /\ translation_tasks' = o.rec
            /\ background_tasks' = IF o.starts THEN Append(background_tasks, "queued")
                                   ELSE background_tasks
            /\ response' = o.answer
    /\ UNCHANGED <<taskVars, limVars, apiRest, task_dir>>

\* lines 181-187: process_translation begins
JobBegins ==
    /\ pc = "serve"
    /\ \E j \in 1..Len(background_tasks) :
         /\ background_tasks[j] = "queued"
         /\ background_tasks' = [background_tasks EXCEPT ![j] = "running"]
    /\ translation_tasks' = [translation_tasks EXCEPT !.status = PROCESSING]
    /\ UNCHANGED <<taskVars, limVars, apiRest, task_dir, response>>

\* lines 158-172: update_task_progress, the callback of extract_text, for
\* an argument that has n and total; for one that has not, line 171
\* catches the error and the record stays as it is
JobProgress ==
    /\ pc = "serve"
    /\ \E j \in 1..Len(background_tasks) : background_tasks[j] = "running"
    /\ translation_tasks # NoRecord
    /\ translation_tasks' = [translation_tasks EXCEPT !.progress = 50]
    /\ UNCHANGED <<taskVars, limVars, apiRest, task_dir, background_tasks, response>>

\* lines 200-219: extract_text has returned and the two files are there
JobCompletes ==
    /\ pc = "serve"
    /\ \E j \in 1..Len(background_tasks) :
         /\ background_tasks[j] = "running"
         /\ background_tasks' = [background_tasks EXCEPT ![j] = "ended"]
    /\ translation_tasks' = [translation_tasks EXCEPT !.status = COMPLETED,
                                                      !.progress = 100,
                                                      !.output_file = "url"]
    /\ UNCHANGED <<taskVars, limVars, apiRest, task_dir, response>>

\* lines 221-231: extract_text raises, or a file is missing
JobFails ==
    /\ pc = "serve"
    /\ \E j \in 1..Len(background_tasks) :
         /\ background_tasks[j] = "running"
         /\ background_tasks' = [background_tasks EXCEPT ![j] = "ended"]
    /\ translation_tasks' = [translation_tasks EXCEPT !.status = FAILED,
                                                      !.error = "e",
                                                      !.progress = 0]
    /\ UNCHANGED <<taskVars, limVars, apiRest, task_dir, response>>

NextApi == UploadFile \/ TranslatePdf \/ JobBegins \/ JobProgress \/ JobCompletes \/ JobFails

SpecApi == InitApi /\ [][NextApi]_vars

----------------------------------------------------------------------------

(* E. The task worker of translate_task.py, for one row of the table       *)
(* translate, and the page loop as the worker's callback sees it.          *)

\* round(current_page / total_pages, 2) * 100: the hundredths, to the nearest
Hundredths(current, total_pages) == (200 * current + total_pages) \div (2 * total_pages)

InitTask ==
    /\ pc = "tasks"
    /\ AsmIdle /\ sstk = <<>> /\ OrchIdle /\ TypeIdle /\ FigIdle /\ ApiIdle /\ LimIdle
    /\ task_status = "start" /\ task_process = 0
    /\ total \in 1..MaxPages
    /\ pages = {}
    /\ undecodable \in SUBSET (0..(total - 1))
    /\ callback = TRUE
    /\ pageno = 0 /\ progress = <<>> /\ processed = <<>>

taskRest == <<asmVars, orchVars, typeVars, figVars, apiVars, limVars,
              total, pages, callback, undecodable>>

\* translate_task.py 96-119: a row that get_pending_tasks has selected is
\* marked 'process' and extract_text is called with the callback, for
\* every page of the file
BeginTask ==
    /\ pc = "tasks"
    /\ task_status = "start"
    /\ task_status' = "process"
    /\ pc' = "iterate"
    /\ UNCHANGED <<taskRest, task_process, pageno, progress, processed>>

\* translate_task.py 56-75: what the callback leaves in the row; an update
\* that raises (the connection to the database fails) is caught at 72 and
\* the callback returns: stored tells how many of its updates succeed
Callback(row, current, total_pages, stored) ==
    IF stored = 0 THEN row
    ELSE IF stored = 1 \/ Hundredths(current, total_pages) # 100
    THEN [row EXCEPT !.process = Hundredths(current, total_pages)]
    ELSE [status |-> "done", process |-> Hundredths(current, total_pages)]

\* high_level.py 86-91 and translate_task.py 56-75: the loop comes to a
\* page and calls the callback, which stores the progress and, when the
\* progress is 1, the status 'done'
ReportPage ==
    /\ pc = "iterate" /\ pageno < total
    /\ Selected(pageno)
    /\ progress' = Append(progress, pageno + 1)
    /\ \E stored \in 0..2 :
         \E row \in {Callback([status |-> task_status, process |-> task_process],
                              pageno + 1, total, stored)} :
            /\ task_status' = row.status
            /\ task_process' = row.process
    /\ pc' = "process_page"
    /\ UNCHANGED <<taskRest, pageno, processed>>

\* high_level.py 93-107: the page is processed
InterpretPage ==
    /\ pc = "process_page"
    /\ ~ProcessPageRaises(pageno)
    /\ processed' = Append(processed, pageno)
    /\ pageno' = pageno + 1
    /\ pc' = "iterate"
    /\ UNCHANGED <<taskRest, taskVars, progress>>

\* high_level.py 107: process_page raises; nothing up to process_tasks
\* catches, and the worker ends
InterpretRaises ==
    /\ pc = "process_page"
    /\ ProcessPageRaises(pageno)
    /\ pc' = "raised"
    /\ UNCHANGED <<taskRest, taskVars, pageno, progress, processed>>

\* high_level.py 109-110: the pages are exhausted
TaskReturns ==
    /\ pc = "iterate" /\ pageno = total
    /\ pc' = "closed"
    /\ UNCHANGED <<taskRest, taskVars, pageno, progress, processed>>

NextTask == BeginTask \/ ReportPage \/ InterpretPage \/ InterpretRaises \/ TaskReturns

SpecTask == InitTask /\ [][NextTask]_vars

----------------------------------------------------------------------------

(* F. The rate limiter of the OpenAI translator. Time is counted in ticks  *)
(* of a quarter of a second, and the tokens in quarters of a token. The    *)
(* statements of acquire take no time: time passes while a thread waits    *)
(* for the lock and while it sleeps, and a sleep may last longer than was  *)
(* asked. acquire returns at the instant it releases the lock.             *)

\* the ticks of a run, at most
MaxTime == 12

\* the calls of acquire that return in a run, at most
MaxAcquires == 4

\* the ticks of one second
Second == 4

\* line 215: RateLimiter(1.0)
tokens_per_second == 1

\* the threads that translate with the one translator of a conversion
Callers == 1..3

\* a refill without the cap of lines 177-178
Refill_NoCap(held, time_passed) == held + time_passed * tokens_per_second

\* lines 176-180: the tokens after the refill for the time that has passed
Refill(held, time_passed) ==
    Min2(tokens_per_second * Second, held + time_passed * tokens_per_second)

\* line 183: sleep_time, in ticks
SleepTime(held) == (Second - held) \div tokens_per_second

InitLim ==
    /\ pc = "limit"
    /\ AsmIdle /\ sstk = <<>> /\ OrchIdle /\ TypeIdle /\ DocIdle /\ FigIdle
    /\ ApiIdle /\ TaskIdle
    /\ clock = 0
    /\ tokens = tokens_per_second * Second
    /\ last_update = 0
    /\ lock = 0 /\ until = 0 /\ returns = <<>>

limRest == <<pc, asmVars, orchVars, typeVars, docVars, figVars, apiVars, taskVars>>

\* time.time() advances
Tick ==
    /\ pc = "limit"
    /\ clock < MaxTime
    /\ clock' = clock + 1
    /\ UNCHANGED <<limRest, tokens, last_update, lock, until, returns>>

\* lines 173-189: a thread takes the lock and refills; with a token it
\* takes it and returns, without one it goes to sleep, the lock held
Acquire(t) ==
    /\ pc = "limit"
    /\ lock = 0
    /\ Len(returns) < MaxAcquires
    /\ \E held \in {Refill(tokens, clock - last_update)} :
         IF held < Second
         THEN /\ lock' = t
              /\ until' = clock + SleepTime(held)
              /\ tokens' = held
              /\ UNCHANGED <<last_update, returns>>
         ELSE /\ tokens' = held - Second
              /\ last_update' = clock
              /\ returns' = Append(returns, clock)
              /\ UNCHANGED <<lock, until>>
    /\ UNCHANGED <<limRest, clock>>

\* lines 184-186: the sleep is over, at the tick asked for or later
Wake(t) ==
    /\ pc = "limit"
    /\ lock = t
    /\ clock >= until
    /\ tokens' = 0
    /\ last_update' = clock
    /\ returns' = Append(returns, clock)
    /\ lock' = 0 /\ until' = 0
    /\ UNCHANGED <<limRest, clock>>

NextLim == Tick \/ (\E t \in Callers : Acquire(t)) \/ (\E t \in Callers : Wake(t))

SpecLim == InitLim /\ [][NextLim]_vars

----------------------------------------------------------------------------

----------------------------------------------------------------------------
(* The claims about the retypesetter.                                      *)

\* the digits of the reference the read pointer stands at
RefDigits == SelectSeq(RefHere.group1, IsDigit)

\* the reference names no formula group: no digits, or a number that is
\* not the index of a group
NamesNoGroup == RefDigits = <<>> \/ int(RefDigits) \notin 0..(Len(var) - 1)

AtInvalidRef == InText /\ RefHere.ok /\ NamesNoGroup

\* C6: a formula reference whose index is not the index of a formula group
\* (out of range, or no digits) is skipped without failing: the turn of the
\* loop at it consumes the characters of the reference and leaves the
\* cursor, the pending run, its font, the instructions emitted and the
\* lines as they are; the loop stays in the paragraph, which it leaves only
\* when its text is read to the end, and the run returns.
C6_InvalidReferenceSkipped ==
    /\ [][AtInvalidRef =>
            /\ ptr' = ptr + RefHere.len
            /\ ptr' <= Len(news[id])
            /\ UNCHANGED <<taskVars, limVars, apiVars, figVars, pc, id, x, y, tx, cstk, fcur, fcur_, ops, lstk, _x, _y>>]_vars
    /\ [][id' # id => ptr = Len(news[id])]_vars
    /\ AtInvalidRef ~> (pc = "returned")

\* a run that has returned after it skipped a reference without digits and
\* a reference out of range, each with text after it that was typeset
C6_Witness ==
    /\ pc = "returned"
    /\ \E j, k \in 1..Len(skips) :
          /\ LET m == MatchRef(news[skips[j].id], skips[j].ptr)
             IN  /\ SelectSeq(m.group1, IsDigit) = <<>>
                 /\ skips[j].ptr + m.len < Len(news[skips[j].id])
          /\ LET m == MatchRef(news[skips[k].id], skips[k].ptr)
             IN  /\ SelectSeq(m.group1, IsDigit) # <<>>
                 /\ int(SelectSeq(m.group1, IsDigit)) >= Len(var)
                 /\ skips[k].ptr + m.len < Len(news[skips[k].id])
    /\ Cardinality({i \in 1..Len(ops) : ops[i].op = "TJ"}) >= 2

----------------------------------------------------------------------------
(* The claims about the page loop.                                         *)

\* C7: a page whose processing fails does not abort the run of the
\* document: no exception leaves the loop, and when the run ends every
\* selected page that can be processed has been processed.
C7_PageFailureConfined ==
    /\ pc # "raised"
    /\ pc = "closed" =>
          \A p \in 0..(total - 1) :
             Selected(p) /\ ~ProcessPageRaises(p) =>
                \E i \in 1..Len(processed) : processed[i] = p

----------------------------------------------------------------------------
(* The claims about the classification of glyphs.                          *)

\* the step scans a glyph
ScansGlyph ==
    /\ pc = "scan" /\ pc' = "scan"
    /\ Len(scanned') = Len(scanned) + 1
    /\ Last(scanned').type = "char"

\* the glyph is in the formula buffer after the step that scanned it: it
\* was classified formula
MadeFormula(child) == vstk' # <<>> /\ Last(vstk') = child

\* the glyph goes on with the paragraph of the glyph before it
SameParagraph(child) == pstk # <<>> /\ RegionOf(child) = xt_cls

\* the glyph is a Latin letter and stands in its paragraph after an odd
\* number of double quotes
QuotedLatin(child) ==
    /\ SameParagraph(child)
    /\ Count(Last(sstk), "\"") % 2 = 1
    /\ \E i \in 1..Len(child.text) : LatinAlpha(child.text[i])

\* C11: a Latin letter inside a pair of double quotes is never classified
\* formula, whichever rule would classify it so.
C11_QuotedLatinIsText ==
    [][ScansGlyph =>
         \A child \in {Last(scanned')} :
            QuotedLatin(child) => ~MadeFormula(child)]_vars

\* no rule before the bracket rule classifies the glyph formula
OnlyBracketRule(child) == ~Classify(AsmState, child, RegionOf(child))

\* the glyph is a "(" that comes while a formula buffer is open
OpensGroup(child) == vstk # <<>> /\ child.text = <<"(">>

\* C12: a "(" that comes while a formula buffer is open is classified
\* formula and raises the bracket depth; every glyph after it is classified
\* formula until the ")" that brings the depth back to zero, that ")"
\* included; the rule takes a ")" only as the closer of an open group.
C12_BracketGroupIsFormula ==
    [][ScansGlyph =>
         \A child \in {Last(scanned')} :
            /\ OpensGroup(child) => MadeFormula(child)
            /\ OpensGroup(child) /\ OnlyBracketRule(child) => vbkt' = vbkt + 1
            /\ vbkt > 0 => MadeFormula(child)
            /\ vbkt > 0 /\ child.text = <<")">> /\ OnlyBracketRule(child)
                  => vbkt' = vbkt - 1
            /\ vbkt = 0 /\ OnlyBracketRule(child) /\ ~OpensGroup(child)
                  => ~MadeFormula(child)]_vars

\* no rule but the subscript rule can classify the glyph formula
OnlySubscriptRule(child) ==
    /\ RegionOf(child) # 0
    /\ ~child.vert
    /\ ~vflag(child.fontname, child.text)
    /\ child.text \notin {<<"(">>, <<")">>}

\* the size of the glyph is strictly less than 0.79 times the size of the
\* paragraph
Subscript(child) == child.size * 100 < Last(pstk).size * 79

\* C13 (as stated): a glyph in the region of the glyph before it is made
\* formula by the subscript rule exactly when it is the second or a later
\* glyph of its paragraph and its size is strictly less than 0.79 times
\* the size of the paragraph.
C13_SecondOrLater ==
    [][ScansGlyph =>
         \A child \in {Last(scanned')} :
            OnlySubscriptRule(child) =>
               (MadeFormula(child) <=>
                   SameParagraph(child) /\ Subscript(child))]_vars

\* C13 (amended): a glyph in the region of the glyph before it is made
\* formula by the subscript rule exactly when the text of its paragraph so
\* far, without the blanks around it, is longer than one character and the
\* size of the glyph is strictly less than 0.79 times the size of the
\* paragraph; a glyph of exactly 0.79 times the size is not.
C13_SubscriptRule ==
    [][ScansGlyph =>
         \A child \in {Last(scanned')} :
            OnlySubscriptRule(child) =>
               /\ MadeFormula(child) <=>
                     /\ SameParagraph(child)
                     /\ StripLen(Last(sstk)) > 1
                     /\ Subscript(child)
               /\ SameParagraph(child) /\ child.size * 100 = Last(pstk).size * 79
                     => ~MadeFormula(child)]_vars

\* the third letter of a paragraph of size 10 has size 7.8 and is in the
\* formula buffer
C13_Witness ==
    /\ Len(scanned) = 3
    /\ \A i \in 1..3 : scanned[i].type = "char" /\ RegionOf(scanned[i]) = 1
    /\ scanned[1].size = 100 /\ scanned[2].size = 100
    /\ pstk # <<>> /\ Last(pstk).size = 100
    /\ scanned[3].size = 78
    /\ scanned[3].fontname = PlainFont
    /\ vstk = <<scanned[3]>>
    /\ Last(sstk) = <<"a", "a">>

----------------------------------------------------------------------------
(* The claims about the text of the paragraphs.                            *)

\* the glyph is in the region of the glyph before it, and its left edge is
\* more than one point right of the right edge of that glyph
Gap(child) == SameParagraph(child) /\ child.x0 > xt.x1 + 10

\* the glyph joins the formula group that is open
Continues(child) == vstk # <<>> /\ vstk' = Append(vstk, child)

\* the placeholder of the group that the step closes, if it closes one
Closed_(child) ==
    IF vstk # <<>> /\ ~Continues(child) THEN Placeholder(Len(var)) ELSE <<>>

\* the characters the glyph itself brings to the text
Brought(child) == IF MadeFormula(child) THEN <<>> ELSE child.text

\* C14 (as stated): for two consecutive glyphs of one region with a gap of
\* more than one point between them, exactly one space is appended to the
\* text of the paragraph between them.
C14_GapIsOneSpace ==
    [][ScansGlyph =>
         \A child \in {Last(scanned')} :
            Gap(child) =>
               /\ Len(sstk') = Len(sstk)
               /\ Count(Last(sstk'), " ") = Count(Last(sstk), " ") + 1]_vars

\* C14 (amended): for two consecutive glyphs of one region with a gap of
\* more than one point between them, exactly one space is appended to the
\* text of the paragraph, after what the first glyph brought (its group's
\* placeholder included) and before what the second brings, unless the
\* second glyph joins the formula group the first is in: then nothing is
\* appended.
C14_GapIsOneSpaceOutsideGroup ==
    [][ScansGlyph =>
         \A child \in {Last(scanned')} :
            Gap(child) =>
               /\ Len(sstk') = Len(sstk)
               /\ IF Continues(child)
                  THEN Last(sstk') = Last(sstk)
                  ELSE Last(sstk') =
                          Last(sstk) \o Closed_(child) \o <<" ">> \o Brought(child)]_vars

\* two letters of one region with a gap between them, and the text of
\* their paragraph with one space between them
C14_Witness ==
    /\ Len(scanned) = 2
    /\ \A i \in 1..2 : scanned[i].type = "char" /\ RegionOf(scanned[i]) = 1
    /\ scanned[2].x0 > scanned[1].x1 + 10
    /\ sstk = <<<<"a", " ", "a">>>>

----------------------------------------------------------------------------
(* The claims about the lines of the retypesetter.                         *)

\* the turn of the loop that the step takes reads a character or a
\* reference to a group
TypesetsItem == InText /\ ptr' > ptr /\ (~RefHere.ok \/ LoadFormula(RefHere.group1) # Raised)

\* the advance of the character or of the group the read pointer is at
AdvanceHere ==
    IF RefHere.ok
    THEN vlen[LoadFormula(RefHere.group1) + 1]
    ELSE Advance(ResolveFont(news[id][ptr + 1]), news[id][ptr + 1], pstk[id].size)

\* how far the advance takes the cursor beyond the right boundary, and the
\* epsilon, a tenth of the size of the paragraph
Beyond == x + AdvanceHere - pstk[id].x1
Epsilon == pstk[id].size \div 10

\* the turn goes on with the font of the run in progress
SameFont == ~RefHere.ok /\ ResolveFont(news[id][ptr + 1]) = fcur

\* line 446: the height of a line of the paragraph
LineHeight == (pstk[id].size * LangSpace(lang_out)) \div 10

\* C15: a character or a formula whose advance takes the cursor on the
\* right boundary, or beyond it by the epsilon at most, brings neither a
\* flush of the run for the boundary nor a wrap; an advance that takes it
\* further does: the run in progress is flushed, and in a paragraph that
\* had a line break the line wraps.
C15_BoundaryEpsilon ==
    [][TypesetsItem =>
         /\ Beyond <= Epsilon => y' = y
         /\ Beyond <= Epsilon /\ SameFont =>
               ops' = ops /\ cstk' = Append(cstk, news[id][ptr + 1])
         /\ Beyond > Epsilon /\ cstk # <<>> =>
               /\ Len(ops') > Len(ops)
               /\ ops'[Len(ops) + 1] = TextRun(fcur, pstk[id].size, tx, y, cstk)
         /\ Beyond > Epsilon /\ pstk[id].brk => y' = y - LineHeight]_vars

\* the cursor has come on the boundary plus the epsilon with the second
\* character of a run, which goes on
C15_Witness ==
    /\ pc = "retypeset" /\ id <= Len(pstk)
    /\ pstk[id].brk
    /\ x = pstk[id].x1 + pstk[id].size \div 10
    /\ Len(cstk) >= 2
    /\ x = tx + Len(cstk) * (pstk[id].size \div 2)

\* the paragraph "The value is $v0$." is typeset on the page of the
\* scenario: group 0 is 12 points wide, the right boundary is at 9999
Scenario ==
    /\ scanned = ScenarioPage.children
    /\ news = <<ScenarioText>>
    /\ vlen = <<120>>
    /\ pstk[1].x1 = 99990

\* the instructions that place text: the runs of literal characters, and
\* the glyphs of formula groups
IsPlacement(o) == o.op = "TJ"
IsTextRun(o) == o.op = "TJ" /\ o.vid = -1
IsGlyphRun(o) == o.op = "TJ" /\ o.vid >= 0

\* C16 (as stated): the scenario emits a single run of text and one
\* re-emission of group 0, and the vertical cursor never changes.
C16_SingleTextRun ==
    Scenario =>
       /\ y = pstk[1].y
       /\ pc = "returned" =>
             /\ Len(SelectSeq(ops, IsTextRun)) = 1
             /\ Len(SelectSeq(ops, IsGlyphRun)) = Len(var[1])

\* C16 (amended): the scenario emits the run "The value is ", then the
\* glyphs of group 0, each once, from where the run ended, then the run
\* "." 12 points further, all at the height of the paragraph; the vertical
\* cursor never changes.
C16_TwoTextRuns ==
    Scenario =>
       /\ y = pstk[1].y
       /\ pc = "returned" =>
             SelectSeq(ops, IsPlacement) =
                << TextRun("tiro", 100, 0, pstk[1].y, SubSeq(ScenarioText, 1, 13)),
                   GlyphRun(var[1][1], 650, varf[1] + pstk[1].y, 0),
                   GlyphRun(var[1][2], 720, varf[1] + pstk[1].y, 0),
                   TextRun("tiro", 100, 770, pstk[1].y, <<".">>) >>

\* the scenario has been typeset: two runs of text are in the instructions
\* that are returned
C16_Witness ==
    /\ Scenario
    /\ pc = "returned"
    /\ Len(SelectSeq(ops, IsTextRun)) = 2
    /\ Len(var[1]) = 2

----------------------------------------------------------------------------
(* The claims about the encoding of the characters.                        *)

\* the hex digits of one character in font f: 4 for a composite font and
\* for the fallback font, 2 for any other
HexWidth(f) == IF f = "noto" \/ IsCIDFont(f) THEN 4 ELSE 2

\* the instructions the step appends to ops
Emitted == {k \in (Len(ops) + 1)..Len(ops') : ops'[k].op = "TJ"}

\* C17: every character of an instruction that places text, a translated
\* character as well as the glyph of a formula, is encoded as exactly 4 hex
\* digits when its font is a composite font or the fallback font, and as
\* exactly 2 otherwise, whatever the code of the character.
C17_HexDigitsPerCharacter ==
    [][pc = "retypeset" /\ pc' = "retypeset" =>
         \A k \in Emitted :
            IF ops'[k].vid = -1
            THEN /\ ops'[k].font = fcur
                 /\ Len(ops'[k].str) = HexWidth(fcur) * Len(cstk)
            ELSE Len(ops'[k].str) = HexWidth(ops'[k].font)]_vars

----------------------------------------------------------------------------
(* The claims about the pool of the orchestrator.                          *)

\* the threads whose call of the translator has not returned
InFlight == {w \in DOMAIN wk : wk[w].pc = "call"}

\* the threads that hold paragraph i, and the completions of paragraph i
Holders(i) == {w \in DOMAIN wk : wk[w].pc # "idle" /\ wk[w].item = i}
Completions(i) == {k \in 1..Len(order) : order[k] = i}

\* C18: at every moment of a run the calls of the translator in flight are
\* at most as many as the thread count, and each paragraph is handed to
\* exactly one worker: a paragraph the pool has taken is held by one thread
\* or has completed once, never both, and a paragraph not yet taken is held
\* by none.
C18_BoundedPool ==
    pc \in {"translate", "translated", "failed"} =>
       /\ Cardinality(InFlight) <= thread
       /\ \A i \in 1..Len(sstk) :
             Cardinality(Holders(i)) + Cardinality(Completions(i))
                = IF i < qnext THEN 1 ELSE 0
       /\ pc = "translated" => \A i \in 1..Len(sstk) : Cardinality(Completions(i)) = 1

\* a pool of two threads, both in a call of the translator, each for its
\* own paragraph
C18_Witness ==
    /\ pc = "translate"
    /\ thread = 2
    /\ Cardinality(InFlight) = 2
    /\ wk[1].item # wk[2].item

\* two threads past a miss on the same key at the same time
BothMiss(k) ==
    \E w, u \in Workers :
        /\ w # u
        /\ wk[w].pc \in {"call", "write"} /\ wk[u].pc \in {"call", "write"}
        /\ KeyOf(w) = k /\ KeyOf(u) = k

\* the paragraphs of the page whose key is k
ParagraphsOf(k) == {i \in 1..Len(sstk) : ParagraphKey(sstk[i]) = k}

\* C19 (as stated): no two threads that run at the same time both miss and
\* write the entry of the same key: each key is translated and written at
\* most once in a run, also when paragraphs of the page have the same text.
C19_OncePerKey ==
    pc \in {"translate", "translated", "failed"} =>
       \A k \in Keys :
          /\ ~BothMiss(k)
          /\ calls[k] <= 1
          /\ writes[k] <= 1

\* C19 (amended): a key is translated and written at most once for each
\* paragraph of the page that has its text; it is translated and written
\* at most once in a run when the pool has one thread or when no two
\* threads work on paragraphs of that key at the same time; two threads that
\* do can both miss, and both translate and write the entry.
C19_OncePerKeyUnlessRaced ==
    pc \in {"translate", "translated", "failed"} =>
       \A k \in Keys :
          /\ writes[k] <= calls[k]
          /\ calls[k] <= Cardinality(ParagraphsOf(k))
          /\ (thread = 1 \/ k \notin raced) =>
                /\ ~BothMiss(k)
                /\ calls[k] <= 1
                /\ writes[k] <= 1
          /\ thread = 1 => raced = {}

\* two paragraphs of the same text and two threads: the key has been
\* translated twice and written twice
C19_Witness ==
    /\ pc = "translated"
    /\ thread = 2
    /\ sstk = << <<"a">>, <<"a">> >>
    /\ ParagraphKey(<<"a">>) \in raced
    /\ calls[ParagraphKey(<<"a">>)] = 2
    /\ writes[ParagraphKey(<<"a">>)] = 2

----------------------------------------------------------------------------
(* The claims about the formula groups.                                    *)

\* one of the rules can classify the glyph formula: its region is
\* reserved, its matrix is vertical, its font or its character is a
\* formula's, it is a bracket, or it is smaller than 0.79 of a glyph
\* scanned before it
CanBeFormula(g) ==
    \/ RegionOf(g) = 0
    \/ g.vert
    \/ vflag(g.fontname, g.text)
    \/ g.text \in {<<"(">>, <<")">>}
    \/ \E j \in 1..(g.id - 1) :
          scanned[j].type = "char" /\ g.size * 100 < scanned[j].size * 79

\* glyph h was scanned after glyph g with no glyph between them
NextInScan(g, h) ==
    /\ g.id < h.id
    /\ \A j \in (g.id + 1)..(h.id - 1) : scanned[j].type = "line"

\* the left edges are more than a quarter of the page width apart
Jump(g, h) == Abs(h.x0 - g.x0) * 4 > PageW

\* a group is a run of glyphs of the scan, not empty, all of them formula
\* and in one region, with no jump between two of them but in the
\* reserved region
GroupRun(v) ==
    /\ v # <<>>
    /\ \A i \in 1..Len(v) :
          /\ v[i].id \in 1..Len(scanned) /\ scanned[v[i].id] = v[i]
          /\ v[i].type = "char"
          /\ CanBeFormula(v[i])
          /\ RegionOf(v[i]) = RegionOf(v[1])
    /\ \A i \in 1..(Len(v) - 1) :
          /\ NextInScan(v[i], v[i + 1])
          /\ RegionOf(v[1]) # 0 => ~Jump(v[i], v[i + 1])

\* the step closes the formula buffer as a group
ClosesBuffer == Len(var') = Len(var) + 1 /\ Last(var') = vstk

\* C20: every formula group is a non-empty run of glyphs that were
\* consecutive in the scan, all classified formula and all of one region,
\* and outside the reserved region two consecutive glyphs of a group have
\* their left edges a quarter of the page width apart at most; the buffer is
\* closed as soon as a glyph is not classified formula, the region changes,
\* or the jump is more than a quarter of the page width outside the
\* reserved region, and at the end of the page.
C20_FormulaGroups ==
    /\ [](pc \in {"scan", "scanned"} =>
            /\ \A g \in 1..Len(var) : GroupRun(var[g])
            /\ vstk # <<>> => GroupRun(vstk)
            /\ pc = "scanned" /\ vstk # <<>> => var # <<>> /\ Last(var) = vstk)
    /\ [][ScansGlyph /\ vstk # <<>> =>
            \A child \in {Last(scanned')} :
               ClosesBuffer <=>
                  \/ ~MadeFormula(child)
                  \/ RegionOf(child) # xt_cls
                  \/ (Jump(xt, child) /\ RegionOf(child) # 0)]_vars

\* the page is scanned and has a group of two glyphs outside the reserved
\* region, and a group closed by a jump
C20_Witness ==
    /\ pc = "scanned"
    /\ Len(var) = 2
    /\ Len(var[1]) = 2
    /\ RegionOf(var[1][1]) = 1 /\ RegionOf(var[2][1]) = 1
    /\ NextInScan(var[1][2], var[2][1])
    /\ Jump(var[1][2], var[2][1])

----------------------------------------------------------------------------
(* The claims about the correction of a formula's vertical offset.         *)

\* the glyphs scanned before glyph g
Before(g) == {j \in 1..(g.id - 1) : scanned[j].type = "char"}

\* the glyph before the first glyph of group v was in its region and left
\* of it
LedBy(v) ==
    /\ Before(v[1]) # {}
    /\ RegionOf(scanned[SetMax(Before(v[1]))]) = RegionOf(v[1])
    /\ v[1].x0 > scanned[SetMax(Before(v[1]))].x0

\* the correction by the glyph before the group, if there is one
FixFromLeft(v) ==
    IF LedBy(v) THEN v[1].y0 - scanned[SetMax(Before(v[1]))].y0 ELSE 0

\* the glyph that closes group v is text of its region, right of the left
\* edge of every glyph of the group
TrailedBy(v, child) ==
    /\ ~MadeFormula(child)
    /\ RegionOf(child) = RegionOf(Last(v))
    /\ \A i \in 1..Len(v) : child.x0 > v[i].x0

\* C21: the correction recorded for a formula group is the first glyph's
\* y0 less the y0 of the glyph that follows, when that glyph is text of the
\* same region right of the left edge of every glyph of the group;
\* otherwise the first glyph's y0 less the y0 of the glyph before it, when
\* that glyph was in the same region and left of it; otherwise 0.  The
\* pending correction is 0 whenever the buffer is empty.
C21_VerticalFix ==
    /\ [](pc = "scan" /\ vstk = <<>> => vfix = 0)
    /\ [](Len(varf) = Len(var))
    /\ [][pc = "scan" /\ Len(var') = Len(var) + 1 =>
            /\ Last(var') = vstk
            /\ Last(varf') =
                  IF ScansGlyph
                  THEN IF TrailedBy(vstk, Last(scanned'))
                       THEN vstk[1].y0 - Last(scanned').y0
                       ELSE FixFromLeft(vstk)
                  ELSE FixFromLeft(vstk)]_vars

\* a group closed by text right of it is corrected by that text, not by
\* the glyph before it, which would give another correction
C21_Witness ==
    /\ pc = "scan"
    /\ Len(var) = 1 /\ Len(scanned) = 3
    /\ vstk = <<>> /\ vfix = 0
    /\ var[1] = <<scanned[2]>>
    /\ LedBy(var[1])
    /\ FixFromLeft(var[1]) # var[1][1].y0 - scanned[3].y0
    /\ varf[1] = var[1][1].y0 - scanned[3].y0

----------------------------------------------------------------------------
(* The claims about the attributes of a paragraph.                         *)

\* the paragraph a glyph is added to, as it is before the glyph is added:
\* the paragraph in progress, or a new one
ParagraphOf(child) ==
    IF SameParagraph(child) THEN Last(pstk) ELSE NewParagraph(child)

\* the text of that paragraph before the glyph is added, without a space
\* the glyph brings
TextBefore(child) ==
    IF SameParagraph(child) THEN Last(sstk) \o Closed_(child) ELSE <<>>

\* one of the four conditions of the correction holds for the glyph
NeedsCorrection(child) ==
    \/ child.size * 79 > ParagraphOf(child).size * 100
    \/ StripLen(TextBefore(child)) = 1
    \/ vflag(ParagraphOf(child).font, <<>>)
    \/ BoldFontName(ParagraphOf(child).font)

\* C22: when a text glyph is added to a paragraph and one of the four
\* conditions holds (its size is more than the paragraph's size / 0.79;
\* the paragraph has exactly one non-blank character; the paragraph's font
\* is a formula font; the paragraph's font is bold or medium), the size and
\* the font of the paragraph become the glyph's and its y decreases by the
\* glyph's size less the old size; when none holds, the size, the font and
\* the y of the paragraph do not change.
C22_ParagraphCorrection ==
    [][ScansGlyph =>
         \A child \in {Last(scanned')} :
            ~MadeFormula(child) =>
               IF NeedsCorrection(child)
               THEN /\ Last(pstk').size = child.size
                    /\ Last(pstk').font = child.fontname
                    /\ Last(pstk').y =
                          ParagraphOf(child).y - (child.size - ParagraphOf(child).size)
               ELSE /\ Last(pstk').size = ParagraphOf(child).size
                    /\ Last(pstk').font = ParagraphOf(child).font
                    /\ Last(pstk').y = ParagraphOf(child).y]_vars

\* the third letter of a bold paragraph of size 10 has size 7.9: the
\* paragraph takes its size and its font, and its y goes up by 2.1
C22_Witness ==
    /\ pc = "scan" /\ Len(scanned) = 3 /\ Len(pstk) = 1
    /\ scanned[1].fontname = BoldFont /\ scanned[2].fontname = BoldFont
    /\ scanned[3].size = 79
    /\ sstk = <<<<"a", "a", "a">>>>
    /\ pstk[1].size = 79 /\ pstk[1].font = PlainFont /\ pstk[1].y = 21

\* the glyph is in the region of the glyph before it, and its right edge
\* is left of the left edge of that glyph
BackLeft(child) == SameParagraph(child) /\ child.x1 < xt.x0

\* no paragraph loses its line-break flag, and a paragraph that is opened
\* has none
BreakKept ==
    /\ Len(pstk') >= Len(pstk)
    /\ \A i \in 1..Len(pstk) : pstk[i].brk => pstk'[i].brk
    /\ \A i \in (Len(pstk) + 1)..Len(pstk') : ~pstk'[i].brk

\* C23 (as stated): the line-break flag of a paragraph is false when the
\* paragraph is created, is set, and one space inserted, when a glyph of the
\* same region has its right edge left of the left edge of the glyph
\* before it, and once set is never cleared.
C23_BreakAtBackLeft ==
    [][/\ BreakKept
       /\ ScansGlyph =>
            \A child \in {Last(scanned')} :
               BackLeft(child) =>
                  /\ Last(pstk').brk
                  /\ Count(Last(sstk'), " ") = Count(Last(sstk), " ") + 1]_vars

\* C23 (amended): the line-break flag of a paragraph is false when the
\* paragraph is created; it is set, and one space inserted, when a glyph of
\* the same region has its right edge left of the left edge of the glyph
\* before it, unless the glyph joins the formula group that glyph is in:
\* then the flag and the text stay as they are; the flag changes at no
\* other glyph, and once set is never cleared.
C23_BreakOutsideGroup ==
    [][/\ BreakKept
       /\ ScansGlyph =>
            \A child \in {Last(scanned')} :
               /\ BackLeft(child) /\ ~Continues(child) =>
                     /\ Last(pstk').brk
                     /\ Last(sstk') =
                           Last(sstk) \o Closed_(child) \o <<" ">> \o Brought(child)
               /\ BackLeft(child) /\ Continues(child) =>
                     /\ Last(pstk').brk = Last(pstk).brk
                     /\ sstk' = sstk
               /\ ~BackLeft(child) =>
                     \A i \in 1..Len(pstk) : pstk'[i].brk = pstk[i].brk]_vars

\* a paragraph of two lines: its second letter is left of the first, and
\* a third letter has come after the flag was set
C23_Witness ==
    /\ pc = "scan" /\ Len(scanned) = 3 /\ Len(pstk) = 1
    /\ \A i \in 1..3 : scanned[i].type = "char"
    /\ scanned[2].x1 < scanned[1].x0
    /\ scanned[3].x0 = scanned[2].x1
    /\ sstk = <<<<"a", " ", "a", "a">>>>
    /\ pstk[1].brk

----------------------------------------------------------------------------
(* The claims about the lines of a page.                                   *)

\* the lines scanned
LineSet == {scanned[j] : j \in {n \in 1..Len(scanned) : scanned[n].type = "line"}}

\* the groups that hold glyph g: one, or none
GroupsOf(g) == {n \in 1..Len(var) : \E i \in 1..Len(var[n]) : var[n][i] = g}

\* the glyph is in the buffer, which is not closed yet
InBuffer(g) == pc = "scan" /\ \E i \in 1..Len(vstk) : vstk[i] = g

\* The places of line l: <<n, k>> for the k-th line of group n, <<0, k>>
\* for the k-th global line, <<-1, k>> for the k-th line of the buffer
\* that is not closed yet.
LinePlaces(l) ==
    UNION {{<<n, k>> : k \in {m \in 1..Len(varl[n]) : varl[n][m] = l}} : n \in 1..Len(varl)}
       \cup {<<0, k>> : k \in {m \in 1..Len(lstk) : lstk[m] = l}}
       \cup (IF pc = "scan"
             THEN {<<-1, k>> : k \in {m \in 1..Len(vlstk) : vlstk[m] = l}}
             ELSE {})

\* when line l was seen a formula buffer was open, the buffer of the glyph
\* before the line, and the line's region was that glyph's
SeenInFormula(l) ==
    /\ Before(l) # {}
    /\ GroupsOf(scanned[SetMax(Before(l))]) # {} \/ InBuffer(scanned[SetMax(Before(l))])
    /\ RegionOf(l) = RegionOf(scanned[SetMax(Before(l))])

\* C24: every line scanned is in exactly one place: among the lines of
\* exactly one formula group, the group whose buffer was open, when a
\* buffer was open and the line's region was the region of the glyph
\* before it; among the global lines otherwise.
C24_EveryLineOnce ==
    [](pc \in {"scan", "scanned"} =>
         /\ Len(varl) = Len(var)
         /\ \A l \in LineSet :
               /\ Cardinality(LinePlaces(l)) = 1
               /\ \A pl \in LinePlaces(l) :
                     IF SeenInFormula(l)
                     THEN \/ pl[1] \in GroupsOf(scanned[SetMax(Before(l))])
                          \/ pl[1] = -1 /\ InBuffer(scanned[SetMax(Before(l))])
                     ELSE pl[1] = 0)

\* a formula glyph, a line of its region, and a line of another region:
\* the first is the group's, the second is global
C24_Witness ==
    /\ pc = "scanned" /\ Len(scanned) = 3
    /\ scanned[1].type = "char" /\ scanned[2].type = "line" /\ scanned[3].type = "line"
    /\ RegionOf(scanned[2]) = RegionOf(scanned[1])
    /\ RegionOf(scanned[3]) # RegionOf(scanned[1])
    /\ var = <<<<scanned[1]>>>>
    /\ varl = <<<<scanned[2]>>>>
    /\ lstk = <<scanned[3]>>

----------------------------------------------------------------------------
(* The claims about the runs of text of the retypesetter.                  *)

\* the encoded text of the runs of o, one after the other
RECURSIVE RunText(_, _)
RunText(o, k) ==
    IF k = 0 THEN <<>>
    ELSE RunText(o, k - 1) \o (IF IsTextRun(o[k]) THEN o[k].str ELSE <<>>)

\* the text that is typeset: the runs emitted, then the run in progress
TextSoFar(o, f, s) == RunText(o, Len(o)) \o (IF s = <<>> THEN <<>> ELSE raw_string(f, s))

\* the run in progress has to be flushed by the turn the step takes
MustFlush == cstk # <<>> /\ (RefHere.ok \/ ~SameFont \/ Beyond > Epsilon)

\* the character of the turn is a space that begins a line at the left
\* boundary, which is eliminated
Eliminated ==
    /\ ~RefHere.ok /\ news[id][ptr + 1] = " "
    /\ cstk = <<>> \/ MustFlush
    /\ (IF pstk[id].brk /\ Beyond > Epsilon THEN pstk[id].x0 ELSE x) = pstk[id].x0

\* C25: the run in progress is flushed when the font changes, at a
\* reference to a formula and when the advance goes beyond the right
\* boundary by more than the epsilon, and then only; the characters of a
\* run are of one font and on one baseline; every literal character but
\* the eliminated spaces is in one run, in the order of the text.
C25_RunsOfOneFont ==
    /\ [](pc = "retypeset" => \A i \in 1..Len(cstk) : ResolveFont(cstk[i]) = fcur)
    /\ [][TypesetsItem =>
            /\ IF MustFlush
               THEN /\ Len(ops') > Len(ops)
                    /\ ops'[Len(ops) + 1] = TextRun(fcur, pstk[id].size, tx, y, cstk)
                    /\ \A k \in (Len(ops) + 2)..Len(ops') : ~IsTextRun(ops'[k])
               ELSE /\ \A k \in (Len(ops) + 1)..Len(ops') : ~IsTextRun(ops'[k])
                    /\ cstk # <<>> =>
                          /\ cstk' = Append(cstk, news[id][ptr + 1])
                          /\ y' = y /\ tx' = tx /\ fcur' = fcur
            /\ TextSoFar(ops', fcur', cstk') =
                  TextSoFar(ops, fcur, cstk) \o
                  (IF RefHere.ok \/ Eliminated THEN <<>>
                   ELSE raw_string(ResolveFont(news[id][ptr + 1]),
                                   <<news[id][ptr + 1]>>))]_vars
    /\ [][pc = "retypeset" /\ id' = id + 1 =>
            /\ TextSoFar(ops', fcur', cstk') = TextSoFar(ops, fcur, cstk)
            /\ cstk' = <<>>]_vars

\* a run of two characters of the Latin font has been flushed for a
\* character of the other font, whose run follows
C25_Witness ==
    /\ pc = "returned"
    /\ \E k \in 1..(Len(ops) - 1) :
          /\ IsTextRun(ops[k]) /\ IsTextRun(ops[k + 1])
          /\ ops[k].font = "tiro" /\ ops[k + 1].font = "noto"
          /\ Len(ops[k].str) = 4
          /\ ops[k].y = ops[k + 1].y

----------------------------------------------------------------------------
(* The claims about the wrap of the cursor.                                *)

\* the turn the step takes wraps the cursor
Wraps == TypesetsItem /\ pstk[id].brk /\ Beyond > Epsilon

\* what the turn adds to x: the advance, less the width of a modifier that
\* ends the group, and nothing for an eliminated space
Applied ==
    IF RefHere.ok
    THEN AdvanceHere -
         (IF IsModifier(Last(var[LoadFormula(RefHere.group1) + 1]))
          THEN Last(var[LoadFormula(RefHere.group1) + 1]).x1
               - Last(var[LoadFormula(RefHere.group1) + 1]).x0
          ELSE 0)
    ELSE IF Eliminated THEN 0 ELSE AdvanceHere

\* C26: while a paragraph is typeset the cursor wraps, x from the left
\* boundary and y lower by the size times the multiplier of the target
\* language, 1.1 for a language without an entry, exactly when the
\* paragraph has its line-break flag and x + adv > x1 + 0.1 * size; without
\* the flag y never changes.
C26_WrapExactly ==
    [][InText =>
         IF Wraps
         THEN /\ x' = pstk[id].x0 + Applied
              /\ y' = y - (pstk[id].size * LangSpace(lang_out)) \div 10
              /\ lang_out = "fr" => y' = y - (pstk[id].size * 11) \div 10
         ELSE /\ y' = y
              /\ TypesetsItem => x' = x + Applied]_vars

\* the text of a paragraph with the flag has wrapped once, for a language
\* without an entry, and the cursor is past the boundary again
C26_Witness ==
    /\ pc = "retypeset" /\ id <= Len(pstk)
    /\ pstk[id].brk /\ lang_out = "fr"
    /\ y = pstk[id].y - (pstk[id].size * 11) \div 10
    /\ x > pstk[id].x0

----------------------------------------------------------------------------
(* The claims about the glyphs of a formula that is typeset.               *)

\* the group the reference names, and where its glyphs are in ops'
GroupHere == LoadFormula(RefHere.group1) + 1
GlyphBase == Len(ops) + (IF cstk # <<>> THEN 1 ELSE 0)

\* the cursor when the glyphs are emitted, after the wrap if there is one
CursorX == IF Wraps THEN pstk[id].x0 ELSE x
CursorY == IF Wraps THEN y - LineHeight ELSE y

\* the glyphs of the group are emitted from the cursor with correction fix
GlyphsAt(fix) ==
    /\ Len(ops') >= GlyphBase + Len(var[GroupHere])
    /\ \A k \in 1..Len(var[GroupHere]) :
          ops'[GlyphBase + k] =
             GlyphRun(var[GroupHere][k],
                      CursorX + var[GroupHere][k].x0 - var[GroupHere][1].x0,
                      fix + CursorY + var[GroupHere][k].y0 - var[GroupHere][1].y0,
                      GroupHere - 1)

\* C27 (as stated): at every reference to a group that is typeset the
\* correction recorded for the group is applied, the first token of the
\* paragraph included, and each glyph is emitted at (x + glyph.x0 -
\* first.x0, correction + y + glyph.y0 - first.y0).
C27_FixAlways ==
    [][TypesetsItem /\ RefHere.ok => GlyphsAt(varf[GroupHere])]_vars

\* C27 (amended): the correction recorded for the group is applied when a
\* literal character of the paragraph has been read before the reference,
\* and no correction otherwise; each glyph is emitted at (x + glyph.x0 -
\* first.x0, correction + y + glyph.y0 - first.y0).
C27_FixAfterText ==
    /\ [][TypesetsItem /\ RefHere.ok =>
             GlyphsAt(IF fcur # NoFont THEN varf[GroupHere] ELSE 0)]_vars
    /\ [][InText /\ ~RefHere.ok => fcur' # NoFont]_vars
    /\ [][InText /\ RefHere.ok => fcur' = fcur]_vars
    /\ [][pc = "retypeset" /\ id' = id + 1 /\ id < Len(news) => fcur' = NoFont]_vars

\* a glyph of a group with a correction has been emitted after a literal
\* character, in a paragraph that does not wrap: it is off the line of the
\* cursor by the correction
C27_Witness ==
    /\ pc = "retypeset" /\ id <= Len(pstk) /\ ~pstk[id].brk
    /\ fcur # NoFont /\ ops # <<>>
    /\ IsGlyphRun(Last(ops))
    /\ varf[Last(ops).vid + 1] # 0
    /\ Last(ops).y = varf[Last(ops).vid + 1] + y
                     + Last(var[Last(ops).vid + 1]).y0 - var[Last(ops).vid + 1][1].y0

----------------------------------------------------------------------------
(* The claims about the global lines.                                      *)

\* the global lines of the assembly of the page
GlobalLines == ScanAll(S0, <<>>, scanned, 1).S.lstk

\* the segments a list of lines is drawn with, where they were on the page
Drawn(ls) == [k \in 1..Len(ls) |-> Stroke(ls[k].x0, ls[k].y0, ls[k])]

NotAbove5(l) == l.linewidth <= 50
Below5(l) == l.linewidth < 50

\* a segment that traces the cursor of a debug run
IsTrace(l) == l.id = 0 /\ l.linewidth = 1

\* the step ends the retypesetting of the page
Returns == pc = "retypeset" /\ pc' = "returned"

\* C28 (as stated): the segments drawn after the paragraphs are the global
\* lines of the assembly but those of a width above 5, whatever the
\* logging level.
C28_GlobalLinesOnly ==
    [][Returns =>
         ops' = <<[op |-> "BT"]>> \o ops
                \o Drawn(SelectSeq(GlobalLines, NotAbove5)) \o <<[op |-> "ET"]>>]_vars

\* C28 (amended): the segments drawn after the paragraphs are the global
\* lines of the assembly of a width below 5 when the logging level is not
\* DEBUG; at the level DEBUG they are followed by the segments that trace
\* the cursor.
C28_GlobalLinesAndTraces ==
    /\ [][Returns =>
            /\ ops' = <<[op |-> "BT"]>> \o ops
                      \o Drawn(SelectSeq(lstk, Below5)) \o <<[op |-> "ET"]>>
            /\ Len(lstk) >= Len(GlobalLines)
            /\ SubSeq(lstk, 1, Len(GlobalLines)) = GlobalLines
            /\ \A k \in (Len(GlobalLines) + 1)..Len(lstk) : IsTrace(lstk[k])
            /\ ~debug => lstk = GlobalLines]_vars
    /\ [][pc = "retypeset" /\ ~debug => lstk' = lstk]_vars

\* a page with global lines of widths 0.1, 5 and 6 has been typeset at a
\* level that is not DEBUG: one segment is drawn after the paragraphs
C28_Witness ==
    /\ pc = "returned" /\ ~debug
    /\ {lstk[k].linewidth : k \in 1..Len(lstk)} = {1, 50, 60}
    /\ Len(ops) >= 3
    /\ ops[Len(ops) - 1] = Stroke(lstk[1].x0, lstk[1].y0, lstk[1])
    /\ ops[Len(ops) - 2].op # "l"

----------------------------------------------------------------------------
(* The claims about the font of a literal character.                       *)

\* the character the turn reads
CharHere == news[id][ptr + 1]

\* The test of the font of the paragraph that lines 418-422 keep as a
\* comment: the font has a width for the code of the character and decodes
\* it to the character. A font does so for the characters its glyphs on
\* the page show.
InheritedAccepts(ch) ==
    \E n \in 1..Len(scanned) :
       /\ scanned[n].type = "char"
       /\ scanned[n].fontname = pstk[id].font
       /\ scanned[n].text = <<ch>>

\* the turn reads a literal character
ReadsLiteral == InText /\ ~RefHere.ok /\ ptr' = ptr + 1

\* C29 (as stated): the font of a literal character is the first that
\* accepts it of the font of the paragraph, the default Latin font and the
\* fallback font.
C29_InheritedFontFirst ==
    [][ReadsLiteral =>
         fcur' = IF InheritedAccepts(CharHere) THEN FontId(pstk[id].font)
                 ELSE IF CharHere \in TiroChars THEN "tiro"
                 ELSE resfont]_vars

\* C29 (amended): the font of a literal character is the default Latin
\* font when the character goes through its encoding and back, the
\* fallback font otherwise, and never the font of the paragraph; the
\* advance of the character is that of the selected font at the size of
\* the paragraph.
C29_LatinThenFallback ==
    [][ReadsLiteral =>
         /\ fcur' = IF CharHere \in TiroChars THEN "tiro" ELSE resfont
         /\ fcur_' = fcur'
         /\ fcur' \notin {FontId(pstk[k].font) : k \in 1..Len(pstk)}
         /\ x' = CursorX + (IF Eliminated THEN 0
                            ELSE IF fcur' = "tiro" THEN pstk[id].size \div 2
                            ELSE pstk[id].size)]_vars

\* a character that the font of the paragraph shows on the page has been
\* read: the run is of the default Latin font
C29_Witness ==
    /\ pc = "retypeset" /\ id <= Len(pstk) /\ ptr >= 1
    /\ cstk # <<>> /\ InheritedAccepts(Last(cstk))
    /\ fcur = "tiro"
    /\ pstk[id].font = PlainFont

----------------------------------------------------------------------------
(* The claims about the figures of a page.                                 *)

\* the page that is open
PageOpen == IF _stack = <<>> THEN cur_item ELSE _stack[1]

\* every figure in the item, at any depth, has page id pid
RECURSIVE FiguresCarry(_, _)
FiguresCarry(item, pid) ==
    /\ item.kind = "figure" => item.pageid = pid
    /\ \A k \in 1..Len(item.objs) : FiguresCarry(item.objs[k], pid)

\* C30: in a page whose begin_figure and end_figure calls are nested every
\* figure, at any depth, has the page id of the page; an end_figure makes
\* current the container that was current at the begin_figure it matches,
\* with the figure added to it, and the stack is as deep as it was then.
C30_FiguresOfThePage ==
    /\ [](pc = "page" =>
            /\ PageOpen.kind = "page"
            /\ FiguresCarry(cur_item, PageOpen.pageid)
            /\ \A k \in 1..Len(_stack) : FiguresCarry(_stack[k], PageOpen.pageid))
    /\ [][Len(_stack') > Len(_stack) => _stack' = Append(_stack, cur_item)]_vars
    /\ [][Len(_stack') = Len(_stack) => _stack' = _stack]_vars
    /\ [][Len(_stack') < Len(_stack) =>
            /\ _stack' = SubSeq(_stack, 1, Len(_stack) - 1)
            /\ cur_item'.kind = Last(_stack).kind
            /\ cur_item'.name = Last(_stack).name
            /\ cur_item'.pageid = Last(_stack).pageid
            /\ cur_item'.objs = Last(_stack).objs \o <<cur_item>>]_vars

\* page 2 holds a figure that holds a glyph and a figure, both closed
C30_Witness ==
    /\ pc = "page" /\ _stack = <<>>
    /\ cur_item.kind = "page" /\ cur_item.pageid = 2
    /\ Len(cur_item.objs) = 1
    /\ cur_item.objs[1].kind = "figure" /\ cur_item.objs[1].pageid = 2
    /\ Len(cur_item.objs[1].objs) = 2
    /\ cur_item.objs[1].objs[1].kind = "char"
    /\ cur_item.objs[1].objs[2].kind = "figure"
    /\ cur_item.objs[1].objs[2].pageid = 2

----------------------------------------------------------------------------
(* The claims about the numbers of the placeholders.                       *)

\* the characters of paragraph i that announce a group, in order
AnnouncedIn(i) ==
    LET at == SelectSeq([j \in 1..Len(sstk[i]) |-> j], LAMBDA j : ssrc[i][j] < 0)
    IN  [k \in 1..Len(at) |-> sstk[i][at[k]]]

\* the characters that announce a group in paragraphs 1..i, in order
RECURSIVE AnnouncedUpTo(_)
AnnouncedUpTo(i) == IF i = 0 THEN <<>> ELSE AnnouncedUpTo(i - 1) \o AnnouncedIn(i)

\* the placeholders of indices 0..(k - 1), one after the other
RECURSIVE PlaceholdersTo(_)
PlaceholdersTo(k) ==
    IF k = 0 THEN <<>> ELSE PlaceholdersTo(k - 1) \o Placeholder(k - 1)

\* C31: the k-th group closed on the page, k from 0, is announced by the
\* placeholder of index k: the placeholders the assembler wrote, read in
\* the order of the paragraphs, are those of 0, 1, ..., K - 1, K the number
\* of groups, and every group has a glyph.
C31_PlaceholdersInOrder ==
    pc \in {"scan", "scanned"} =>
        /\ AnnouncedUpTo(Len(sstk)) = PlaceholdersTo(Len(var))
        /\ \A k \in 1..Len(var) : var[k] # <<>>

\* two groups, announced in two paragraphs
C31_Witness ==
    /\ pc = "scanned" /\ Len(var) = 2 /\ Len(sstk) = 2
    /\ AnnouncedIn(1) = Placeholder(0)
    /\ AnnouncedIn(2) = Placeholder(1)

----------------------------------------------------------------------------
(* The claims about the identity translation.                              *)

\* the groups of the glyphs emitted, in the order of ops
EmittedGroups ==
    LET runs == SelectSeq(ops, IsGlyphRun)
    IN  [k \in 1..Len(runs) |-> runs[k].vid]

\* the groups of the glyphs of groups 0..(n - 1), each emitted once
RECURSIVE GroupsOnce(_)
GroupsOnce(n) ==
    IF n = 0 THEN <<>>
    ELSE GroupsOnce(n - 1) \o [k \in 1..Len(var[n]) |-> n - 1]

\* C32: when the translation of every paragraph is its source text, the
\* retypesetter emits every formula group of the page once, in the order
\* of the indices, whatever text the assembler made, text with "v", digits
\* or "$" next to a placeholder included.
C32_IdentityEmitsEachGroupOnce ==
    pc = "returned" /\ news = sstk => EmittedGroups = GroupsOnce(Len(var))

----------------------------------------------------------------------------
(* The claims about the end of the loop.                                   *)

\* C33: every turn of the loop moves the read pointer forward, by the
\* length of the reference it reads, a reference that is skipped included,
\* or by one character, and never beyond the end of the text; the loop
\* leaves every paragraph and the page is returned.
C33_LoopTerminates ==
    /\ [][InText =>
            /\ ptr' = ptr + (IF RefHere.ok THEN RefHere.len ELSE 1)
            /\ ptr' > ptr /\ ptr' <= Len(news[id])
            /\ id' = id]_vars
    /\ [](InText => <>(~InText))
    /\ (pc = "retypeset") ~> (pc = "returned")

\* a paragraph whose text has been read to its end in two turns, of a
\* reference that is skipped and of a reference that is typeset
C33_Witness ==
    /\ pc = "retypeset" /\ id <= Len(news)
    /\ ptr = Len(news[id]) /\ ptr = 9
    /\ skips # <<>> /\ Last(skips).id = id /\ Last(skips).ptr = 0
    /\ ops # <<>> /\ IsGlyphRun(Last(ops))

----------------------------------------------------------------------------
(* The claims about what the cache holds.                                  *)

\* C34: the cache gets only translations that a call of the translator
\* that succeeded has made: a call that failed writes nothing, so that no
\* failure is served as a translation by a later run.
C34_OnlyTranslationsCached ==
    \A k \in Keys :
        cache[k] # cache0[k] => cache[k] \in Translations(k[1])

----------------------------------------------------------------------------
(* The claims about the API.                                               *)

\* the jobs of the task that have not ended
JobsOpen == {j \in 1..Len(background_tasks) : background_tasks[j] # "ended"}

\* C35: a /translate request that comes while a job of the task is
\* accepted, the status pending or processing, starts no other job: at
\* most one job of the task is open at any time.
C35_OneJobPerTask == Cardinality(JobsOpen) <= 1


\* C36: once the stored status of the task is COMPLETED, no step changes
\* it: not an upload, not a /translate request, not a step of a job.
C36_CompletedStays ==
    [][translation_tasks.status = COMPLETED => translation_tasks'.status = COMPLETED]_vars

\* a /translate request is answered with an error
Rejected == TranslatePdf /\ response'.code \in {400, 404}

\* C37: a /translate request that is rejected, with 400 or with 404,
\* leaves the stored record of the task as it was and adds no job.
C37_RejectedChangesNothing ==
    [][Rejected => /\ translation_tasks' = translation_tasks
                   /\ background_tasks' = background_tasks]_vars


\* C38: the status of a task is 'done' only when every page of its
\* document has been processed.
C38_DoneAfterEveryPage ==
    task_status = "done" => Len(processed) = total


\* C39: any two consecutive returns of acquire are at least one second
\* apart, whichever threads they are returns to.
C39_OneSecondApart ==
    \A i \in 1..(Len(returns) - 1) : returns[i + 1] - returns[i] >= Second

\* three returns: one after a sleep, exactly a second after the one before
\* it, and one of a thread that found a whole token
C39_Witness ==
    /\ Len(returns) = 3
    /\ returns[2] = returns[1] + Second
    /\ returns[3] > returns[2] + Second
    /\ tokens = 0 /\ last_update = returns[3]

====
